---------------------------- MODULE Spec2Model ----------------------------
(***************************************************************************)
(* A model of darkroom / filmreel: the cut register (cut.rs), frame        *)
(* hydration (frame.rs), response validation (response.rs), the take       *)
(* runner (take.rs) and the record runner (record.rs).                     *)
(*                                                                         *)
(* Strings are sequences of one-character strings; byte ranges are the     *)
(* 0-based half-open ranges of the Rust code (start .. end).  A JSON value *)
(* is a record [kind, str, id]: kind "String" carries its text in str,     *)
(* kind "Other" is a non-string value (object, number, ...) told apart by  *)
(* its id.                                                                 *)
(***************************************************************************)
EXTENDS Integers, Sequences, FiniteSets, TLC

VARIABLES
    \* ---- Register::read_match / read_operation driven as in test_read_op
    rd_pc,        \* "start" | "matched" | "done" | "err" | "panic" | "idle"
    reg,          \* the Register (vars: name -> Value)
    json_string,  \* the input string handed to read_match
    value,        \* the target Value the matches are applied to
    matches,      \* the Vec<Match> still to be applied, in returned order
    hide_vars,    \* the hide flag of read_operation
    \* ---- Register::write_match
    wm_pc,        \* "start" | "done" | "idle"
    var_name,     \* the arguments of write_match
    frame_str,
    payload_str,
    wm_out,       \* its result: [res, some, str]
    \* ---- a Register built and changed by its public operations
    rg_pc,        \* "live" | "idle"
    rg_op,        \* the last operation: its name, arguments, the register
                  \* before it and what it returned
    \* ---- Response::apply_validation on one array selection
    va_pc,            \* "start" | "done" | "idle"
    rule,             \* the Validator: [partial, unordered]
    self_selection,   \* the frame-side array
    other_selection,  \* the payload array before the call
    va_out,           \* [res, other]: how the call ended, the payload array after
    \* ---- Frame::hydrate
    hy_pc,        \* "start" | "done" | "idle"
    hy_frame0,    \* the frame as deserialized
    hy_frame,     \* the frame, mutated in place
    hy_hide,      \* the hide argument
    hy_out,       \* "Ok" | "Err" | "Panic"
    hy_err,       \* which error hydrate returned, "" when it returned Ok
    \* ---- process_response
    pr_pc,             \* "start" | "done" | "idle"
    pr_frame0,         \* the hydrated frame handed to process_response
    pr_frame,          \* the frame, mutated in place
    pr_reg0,           \* the register before the call
    payload_response,  \* the Response the service returned
    pr_output,         \* "None" | "Ok" | "Fail": no take file, fs::write outcome
    pr_out,            \* "Ok" | "Err" | "Panic"
    pr_matched,        \* what match_payload_response returned: [res, matches]
    \* ---- run_record and run_take
    rc_pc,          \* "next" | "hydrate" | "init" | "request" | "process" |
                    \* "sleep" | "abort" | "done" | "idle"
    frames,         \* runner.frames
    frame_idx,      \* the position of the for loop in runner.frames, from 1
    payload_frame,  \* the frame of the take under way
    cut_out,        \* base_params.cut_out: "None" | "Set"
    cut_file,       \* what was written to cut_out: <<>> or <<register>>
    verbose,        \* base_params.verbose
    take_out,       \* runner.take_out: "None" | "Set"
    attempts,       \* params.attempts: [some, times, ms]
    attempt_n,      \* n of the retry loop; the final attempt comes after it
    sent,           \* requests sent by the take under way
    take_response,  \* the Response run_request returned
    take_err,       \* where the take under way failed, "" if it has not
    record_result,  \* what run_record returned: <<>> while it runs
    rc_log,         \* what happened so far, in order
    take_reg0,      \* the register when run_take was entered
    take_stage,     \* where the last process_response of the take ended
    take_matches,   \* what its match_payload_response returned: [res, matches]
    attempt_start,  \* [frame, reg] when the attempt under way was started
    \* ---- Reel::new
    rl_pc,          \* "start" | "done" | "idle"
    dir_files,      \* the files of the directory that the glob matches
    frame_range,    \* the range argument: [some, start, end]
    reel,           \* what Reel::new returned: [res, frames, err]
    \* ---- cmd_record up to the call of run_record
    cr_pc,          \* "start" | "run_record" | "err" | "idle"
    cut_register,   \* the cut file of cmd.get_cut_file(): [ok, reg]
    component,      \* the default cut files of cmd.component, in order
    merge_cuts,     \* the cuts of cmd.merge_cuts, in order
    \* ---- serde_json::from_str followed by serde_json::to_value
    sd_pc,          \* "doc" | "struct" | "invalid" | "serialized" | "idle"
    sd_kind,        \* the type read: "Frame" | "Response" | "Register" | "VirtualReel"
    sd_doc,         \* the JSON document handed to from_str
    sd_struct,      \* what from_str returned: [ok, v]
    sd_out          \* the JSON document to_value returned

readVars == <<rd_pc, json_string, value, matches, hide_vars>>
writeVars == <<wm_pc, var_name, frame_str, payload_str, wm_out>>
regVars == <<rg_pc, rg_op>>
valVars == <<va_pc, rule, self_selection, other_selection, va_out>>
hydVars == <<hy_pc, hy_frame0, hy_frame, hy_hide, hy_out, hy_err>>
procVars == <<pr_pc, pr_frame0, pr_frame, pr_reg0, payload_response,
              pr_output, pr_out, pr_matched>>

recVars == <<rc_pc, frames, frame_idx, payload_frame, cut_out, cut_file,
             verbose, take_out, attempts, attempt_n, sent, take_response,
             take_err, record_result, rc_log,
             take_reg0, take_stage, take_matches, attempt_start>>

reelVars == <<rl_pc, dir_files, frame_range, reel>>
cmdVars == <<cr_pc, cut_register, component, merge_cuts>>
serdeVars == <<sd_pc, sd_kind, sd_doc, sd_struct, sd_out>>

vars == <<reg, readVars, writeVars, regVars, valVars, hydVars, procVars,
          recVars, reelVars, cmdVars, serdeVars>>

\* the variables a specification does not use stay at these values
IdleRead ==
    /\ rd_pc = "idle" /\ json_string = <<>>
    /\ value = <<>> /\ matches = <<>> /\ hide_vars = FALSE

IdleRegister == rg_pc = "idle" /\ rg_op = <<>>

IdleValidation ==
    /\ va_pc = "idle" /\ rule = <<>> /\ self_selection = <<>>
    /\ other_selection = <<>> /\ va_out = <<>>

IdleHydrate ==
    /\ hy_pc = "idle" /\ hy_frame0 = <<>> /\ hy_frame = <<>>
    /\ hy_hide = FALSE /\ hy_out = <<>> /\ hy_err = ""

IdleProcess ==
    /\ pr_pc = "idle" /\ pr_frame0 = <<>> /\ pr_frame = <<>> /\ pr_reg0 = <<>>
    /\ payload_response = <<>> /\ pr_output = "None" /\ pr_out = <<>>
    /\ pr_matched = <<>>

IdleRecord ==
    /\ rc_pc = "idle" /\ frames = <<>> /\ frame_idx = 0 /\ payload_frame = <<>>
    /\ cut_out = "None" /\ cut_file = <<>> /\ verbose = FALSE
    /\ take_out = "None" /\ attempts = <<>> /\ attempt_n = 0 /\ sent = 0
    /\ take_response = <<>> /\ take_err = "" /\ record_result = <<>>
    /\ rc_log = <<>>
    /\ take_reg0 = <<>> /\ take_stage = "" /\ take_matches = <<>>
    /\ attempt_start = <<>>

IdleReel ==
    /\ rl_pc = "idle" /\ dir_files = {} /\ frame_range = <<>> /\ reel = <<>>

IdleCmdRecord ==
    /\ cr_pc = "idle" /\ cut_register = <<>> /\ component = <<>>
    /\ merge_cuts = <<>>

IdleSerde ==
    /\ sd_pc = "idle" /\ sd_kind = "" /\ sd_doc = <<>> /\ sd_struct = <<>>
    /\ sd_out = <<>>

IdleWrite ==
    /\ wm_pc = "idle" /\ var_name = <<>> /\ frame_str = <<>>
    /\ payload_str = <<>> /\ wm_out = <<>>

-----------------------------------------------------------------------------
(* Characters                                                              *)

Upper == {"A","B","C","D","E","F","G","H","I","J","K","L","M",
          "N","O","P","Q","R","S","T","U","V","W","X","Y","Z"}
Lower == {"a","b","c","d","e","f","g","h","i","j","k","l","m",
          "n","o","p","q","r","s","t","u","v","w","x","y","z"}
Digit == {"0","1","2","3","4","5","6","7","8","9"}

\* The ASCII characters between 'Z' and 'a', which the range A-z takes in
\* ("GRAVE" stands for the grave accent, which a TLA+ string cannot hold).
BetweenZa == {"[", "\\", "]", "^", "_", "GRAVE"}

\* [A-za-z_0-9] of VAR_MATCH: the range is A-z, not A-Z plus a-z.
CutVarChar(c) == c \in Upper \cup BetweenZa \cup Lower \cup {"_"} \cup Digit

\* [A-Za-z_] of KEY_CHECK
KeyCheckChar(c) == c \in Upper \cup Lower \cup {"_"}

\* [a-z_] of KEY_IGNORE
KeyIgnoreChar(c) == c \in Lower \cup {"_"}

-----------------------------------------------------------------------------
(* Values                                                                  *)

Str(s) == [kind |-> "String", str |-> s, id |-> 0]
Other(n) == [kind |-> "Other", str |-> <<>>, id |-> n]
IsString(v) == v.kind = "String"

\* Option::None of a register lookup
NoValue == [kind |-> "None", str |-> <<>>, id |-> 0]

-----------------------------------------------------------------------------
(* String helpers (std::str)                                               *)

\* s[start..end], 0-based and half-open
Slice(s, start, end) == SubSeq(s, start + 1, end)

starts_with(s, pat) ==
    Len(pat) <= Len(s) /\ SubSeq(s, 1, Len(pat)) = pat

ends_with(s, pat) ==
    Len(pat) <= Len(s) /\ SubSeq(s, Len(s) - Len(pat) + 1, Len(s)) = pat

\* whether pat occurs in s at 0-based offset i
OccursAt(s, pat, i) ==
    i + Len(pat) <= Len(s) /\ SubSeq(s, i + 1, i + Len(pat)) = pat

contains(s, pat) == \E i \in 0..Len(s) : OccursAt(s, pat, i)

\* String::replace_range(start..end, with); the caller checks the range
replace_range(s, start, end, with) ==
    SubSeq(s, 1, start) \o with \o SubSeq(s, end + 1, Len(s))

\* format!("{}{}{}", "${", name, "}")
Decl(name) == <<"$", "{">> \o name \o <<"}">>


-----------------------------------------------------------------------------
(* Register (cut.rs): a map from variable names to Values                  *)

EmptyRegister == [k \in {} |-> NoValue]

contains_key(r, key) == key \in DOMAIN r

get(r, key) == IF key \in DOMAIN r THEN r[key] ELSE NoValue

\* HashMap::insert: overwrite or add; no check of the key
insert(r, key, val) ==
    [k \in DOMAIN r \cup {key} |-> IF k = key THEN val ELSE r[k]]

\* HashMap::remove
remove(r, key) == [k \in DOMAIN r \ {key} |-> r[k]]

\* Register::from: serde builds the map from the cut document as it is; the
\* call of validate is commented out, so no key is checked.
RegisterFrom(doc) == doc

\* KEY_CHECK.is_match(key): ^[A-Za-z_]+$
KEY_CHECK(key) == Len(key) >= 1 /\ \A i \in 1..Len(key) : KeyCheckChar(key[i])

\* KEY_IGNORE.is_match(key): ^[a-z_]+$
KEY_IGNORE(key) == Len(key) >= 1 /\ \A i \in 1..Len(key) : KeyIgnoreChar(key[i])

\* Register::write_operation: [ok, reg, prev]
write_operation(r, key, val) ==
    IF ~KEY_CHECK(key)
    THEN [ok |-> FALSE, reg |-> r, prev |-> NoValue]
    ELSE [ok |-> TRUE, reg |-> insert(r, key, val), prev |-> get(r, key)]

\* a flush that removes every key
flush_ignored_removes_all(r) == EmptyRegister

\* a flush that removes nothing
flush_ignored_keeps_all(r) == r

\* Register::flush_ignored
flush_ignored(r) ==
    LET rm == {k \in DOMAIN r : KEY_IGNORE(k)}
    IN  [k \in DOMAIN r \ rm |-> r[k]]

\* one `other` of destructive_merge: every entry of other is inserted
MergeOne(r, other) ==
    [k \in DOMAIN r \cup DOMAIN other |->
        IF k \in DOMAIN other THEN other[k] ELSE r[k]]

\* a merge in which the entries of self are never overwritten
destructive_merge_keeps_self(r, others) ==
    IF others = <<>> THEN r
    ELSE LET o == others[Len(others)]
         IN  [k \in DOMAIN r \cup DOMAIN o |-> IF k \in DOMAIN r THEN r[k] ELSE o[k]]

\* Register::destructive_merge(others), others a sequence of registers
RECURSIVE destructive_merge(_, _)
destructive_merge(r, others) ==
    IF others = <<>> THEN r
    ELSE destructive_merge(MergeOne(r, Head(others)), Tail(others))

-----------------------------------------------------------------------------
(* Match and Register::read_match                                          *)

EscapeMatch(start, end) ==
    [kind |-> "Escape", name |-> <<>>, value |-> NoValue,
     start |-> start, end |-> end]

VariableMatch(name, val, start, end) ==
    [kind |-> "Variable", name |-> name, value |-> val,
     start |-> start, end |-> end]

\* the end of the greedy run (?P<cut_var>[A-za-z_0-9]+) that starts at q
RECURSIVE CutVarEnd(_, _)
CutVarEnd(s, q) ==
    IF q < Len(s) /\ CutVarChar(s[q + 1]) THEN CutVarEnd(s, q + 1) ELSE q

\* VAR_MATCH tried at offset p:  (\\)? \$\{ [A-za-z_0-9]+ (})?
VAR_MATCH_at(s, p) ==
    LET esc      == p < Len(s) /\ s[p + 1] = "\\"
        brace    == IF esc THEN p + 1 ELSE p
        lead     == OccursAt(s, <<"$", "{">>, brace)
        ns       == brace + 2
        ne       == CutVarEnd(s, ns)
        trailing == ne < Len(s) /\ s[ne + 1] = "}"
    IN  [found    |-> lead /\ ne > ns,
         esc_char |-> esc,
         start    |-> p,
         cut_var  |-> Slice(s, ns, ne),
         trailing_b |-> trailing,
         end      |-> IF trailing THEN ne + 1 ELSE ne]

\* VAR_MATCH.captures_iter(s) from offset p: the leftmost matches, none
\* overlapping another
RECURSIVE captures_iter(_, _)
captures_iter(s, p) ==
    IF p >= Len(s) THEN <<>>
    ELSE LET m == VAR_MATCH_at(s, p)
         IN  IF m.found THEN <<m>> \o captures_iter(s, m.end)
             ELSE captures_iter(s, p + 1)

\* the for loop of read_match over the captures: [ok, matches]
RECURSIVE ReadMatchLoop(_, _, _)
ReadMatchLoop(r, caps, acc) ==
    IF caps = <<>> THEN [ok |-> TRUE, matches |-> acc]
    ELSE LET mat == Head(caps)
         IN  IF mat.esc_char
             THEN ReadMatchLoop(r, Tail(caps),
                      Append(acc, EscapeMatch(mat.start, mat.start + 1)))
             ELSE IF ~mat.trailing_b
             THEN [ok |-> FALSE, matches |-> <<>>]
             ELSE IF contains_key(r, mat.cut_var)
             THEN ReadMatchLoop(r, Tail(caps),
                      Append(acc, VariableMatch(mat.cut_var, r[mat.cut_var],
                                                mat.start, mat.end)))
             ELSE ReadMatchLoop(r, Tail(caps), acc)

\* one insertion of the stable sort by Reverse(range.start)
RECURSIVE InsertByReverseStart(_, _)
InsertByReverseStart(sorted, m) ==
    IF sorted = <<>> THEN <<m>>
    ELSE IF Head(sorted).start >= m.start
         THEN <<Head(sorted)>> \o InsertByReverseStart(Tail(sorted), m)
         ELSE <<m>> \o sorted

\* matches.sort_by_key(|k| Reverse(k.range().start))
RECURSIVE sort_by_key(_)
sort_by_key(ms) ==
    IF ms = <<>> THEN <<>>
    ELSE InsertByReverseStart(sort_by_key(SubSeq(ms, 1, Len(ms) - 1)),
                              ms[Len(ms)])

\* Register::read_match: [ok, matches]
read_match(r, s) ==
    LET found == ReadMatchLoop(r, captures_iter(s, 0), <<>>)
    IN  IF found.ok
        THEN [ok |-> TRUE, matches |-> sort_by_key(found.matches)]
        ELSE found


-----------------------------------------------------------------------------
(* Match::read_operation and Register::read_operation                      *)

\* "${_HIDDEN}"
HIDDEN == <<"$", "{", "_", "H", "I", "D", "D", "E", "N", "}">>

HideMatch ==
    [kind |-> "Hide", name |-> <<>>, value |-> NoValue, start |-> 0, end |-> 0]

\* String::replace_range panics when the range does not lie in the string
RangeInStr(s, start, end) == start <= end /\ end <= Len(s)

\* Match::read_operation(self, json_value): [res, value], res one of
\* "Ok", "Err" (an FrError) and "Panic"
MatchReadOperation(mat, json_value) ==
    CASE mat.kind = "Escape" ->
            IF ~IsString(json_value)
            THEN [res |-> "Err", value |-> json_value]
            ELSE IF ~RangeInStr(json_value.str, mat.start, mat.end)
            THEN [res |-> "Panic", value |-> json_value]
            ELSE [res |-> "Ok",
                  value |-> Str(replace_range(json_value.str,
                                              mat.start, mat.end, <<>>))]
      [] mat.kind = "Variable" ->
            IF IsString(mat.value)
            THEN IF ~IsString(json_value)
                 THEN [res |-> "Err", value |-> json_value]
                 ELSE IF ~RangeInStr(json_value.str, mat.start, mat.end)
                 THEN [res |-> "Panic", value |-> json_value]
                 ELSE [res |-> "Ok",
                       value |-> Str(replace_range(json_value.str, mat.start,
                                                   mat.end, mat.value.str))]
            ELSE [res |-> "Ok", value |-> mat.value]
      [] OTHER ->  \* Match::Hide
            IF IsString(json_value)
            THEN [res |-> "Ok", value |-> Str(HIDDEN)]
            ELSE [res |-> "Err", value |-> json_value]

\* Register::read_operation(&self, mat, value, hide_vars): [res, value]
read_operation(r, mat, val, hide) ==
    IF mat.kind = "Variable" /\ ~contains_key(r, mat.name)
    THEN [res |-> "Err", value |-> val]
    ELSE IF /\ mat.kind = "Variable"
            /\ hide
            /\ mat.name # <<>> /\ mat.name[1] = "_"
            /\ IsString(val)
            /\ contains(val.str, Decl(mat.name))
    THEN MatchReadOperation(HideMatch, val)
    ELSE MatchReadOperation(mat, val)

\* a check that lets every frame string pass for a standalone declaration
expect_standalone_var_passes_all(var, frame) == TRUE

\* Register::expect_standalone_var: TRUE for Ok(())
expect_standalone_var(var, frame) == Decl(var) = frame


-----------------------------------------------------------------------------
(* Bounded inputs                                                          *)

\* all concatenations of at most n pieces
RECURSIVE Concats(_, _)
Concats(pieces, n) ==
    IF n = 0 THEN {<<>>}
    ELSE LET shorter == Concats(pieces, n - 1)
         IN  shorter \cup {s \o p : s \in shorter, p \in pieces}

\* variable names used by the inputs
NameA == <<"A">>
NameO == <<"O">>
NameH == <<"_", "h">>
NameU == <<"U">>          \* never a key of a register

MaxReadPieces == 4

ReadPieces ==
    { <<"\\">>, <<"}">>, <<"x">>,
      <<"$", "{">> \o NameA, <<"$", "{">> \o NameO,
      <<"$", "{">> \o NameH, <<"$", "{">> \o NameU }

ReadStrings == Concats(ReadPieces, MaxReadPieces)

\* registers as register!({...}) builds them: a string that is shorter and
\* one that is longer than the expression it replaces, a value that itself
\* holds an expression, a hidden variable and a non-string value
ReadRegisters ==
    { (NameA :> Str(<<"1">>)) @@ (NameO :> Other(1))
                              @@ (NameH :> Str(<<"s", "e", "c", "r", "e", "t">>)),
      (NameA :> Str(Decl(NameO))) @@ (NameO :> Str(<<"l", "o", "n", "g", "e", "r">>)) }

-----------------------------------------------------------------------------
(* SpecRead: read_match, then read_operation for every returned Match in   *)
(* the returned order (the loop of test_read_op)                           *)

InitRead ==
    /\ rd_pc = "start"
    /\ reg \in ReadRegisters
    /\ json_string \in ReadStrings
    /\ value = Str(json_string)
    /\ matches = <<>>
    /\ hide_vars = FALSE
    /\ IdleWrite /\ IdleRegister /\ IdleValidation /\ IdleHydrate /\ IdleProcess
    /\ IdleRecord /\ IdleReel /\ IdleCmdRecord
    /\ IdleSerde

\* let matches = reg.read_match(input)
ReadMatch ==
    /\ rd_pc = "start"
    /\ LET found == read_match(reg, json_string)
       IN  /\ rd_pc' = IF found.ok THEN "matched" ELSE "err"
           /\ matches' = found.matches
    /\ UNCHANGED <<reg, json_string, value, hide_vars>>
    /\ UNCHANGED <<writeVars, regVars, valVars, hydVars, procVars, recVars,
                 reelVars, cmdVars, serdeVars>>

\* one iteration of: for mat in matches { reg.read_operation(mat, &mut input, hide) }
ReadOperation ==
    /\ rd_pc = "matched"
    /\ matches # <<>>
    /\ LET done == read_operation(reg, Head(matches), value, hide_vars)
       IN  /\ value' = done.value
           /\ rd_pc' = CASE done.res = "Ok" -> "matched"
                         [] done.res = "Err" -> "err"
                         [] OTHER -> "panic"
    /\ matches' = Tail(matches)
    /\ UNCHANGED <<reg, json_string, hide_vars>>
    /\ UNCHANGED <<writeVars, regVars, valVars, hydVars, procVars, recVars,
                 reelVars, cmdVars, serdeVars>>

\* the loop ends
ReadDone ==
    /\ rd_pc = "matched"
    /\ matches = <<>>
    /\ rd_pc' = "done"
    /\ UNCHANGED <<reg, json_string, value, matches, hide_vars>>
    /\ UNCHANGED <<writeVars, regVars, valVars, hydVars, procVars, recVars,
                 reelVars, cmdVars, serdeVars>>

NextRead == ReadMatch \/ ReadOperation \/ ReadDone

SpecRead == InitRead /\ [][NextRead]_vars


-----------------------------------------------------------------------------
(* C3: what the read operation is to yield, read off the input from left   *)
(* to right                                                                *)

\* a character of a variable name as the data model spells it
NameChar(c) == c \in Upper \cup Lower \cup Digit \cup {"_"}

RECURSIVE NameEnd(_, _)
NameEnd(s, q) ==
    IF q < Len(s) /\ NameChar(s[q + 1]) THEN NameEnd(s, q + 1) ELSE q

\* the input from offset p on with every `${NAME}`, NAME a key of r, replaced
\* by r[NAME], the backslash of every escaped `\${NAME...` dropped and the
\* rest copied: [ok, str]; ok is FALSE when a value to splice in is no string
RECURSIVE Rewritten(_, _, _)
Rewritten(r, s, p) ==
    IF p >= Len(s) THEN [ok |-> TRUE, str |-> <<>>]
    ELSE
    LET lead(b)  == OccursAt(s, <<"$", "{">>, b) /\ NameEnd(s, b + 2) > b + 2
        ne(b)    == NameEnd(s, b + 2)
        closed(b) == ne(b) < Len(s) /\ s[ne(b) + 1] = "}"
        stop(b)  == IF closed(b) THEN ne(b) + 1 ELSE ne(b)
        then(text, q) ==
            LET rest == Rewritten(r, s, q)
            IN  [ok |-> rest.ok, str |-> text \o rest.str]
    IN  IF s[p + 1] = "\\" /\ lead(p + 1)
        THEN then(Slice(s, p + 1, stop(p + 1)), stop(p + 1))
        ELSE IF lead(p) /\ closed(p) /\ Slice(s, p + 2, ne(p)) \in DOMAIN r
        THEN LET v == r[Slice(s, p + 2, ne(p))]
             IN  IF IsString(v) THEN then(v.str, stop(p))
                 ELSE [ok |-> FALSE, str |-> <<>>]
        ELSE IF lead(p)
        THEN then(Slice(s, p, stop(p)), stop(p))
        ELSE then(<<s[p + 1]>>, p + 1)

\* a target that is one expression and nothing else takes the value as it is
ReadExpected(r, s) ==
    IF \E n \in DOMAIN r : s = Decl(n)
    THEN r[CHOOSE n \in DOMAIN r : s = Decl(n)]
    ELSE LET w == Rewritten(r, s, 0)
         IN  IF w.ok THEN Str(w.str) ELSE NoValue

\* C3: once read_match and every read_operation (hide = false) have
\* returned, the target is the input with every `${NAME}` of a register key
\* replaced by the register's value, every escaping backslash removed and
\* every other expression left as it was.
C3_ReadYieldsRewritten ==
    (rd_pc = "done" /\ ~hide_vars) => value = ReadExpected(reg, json_string)

\* C14: a read_operation with a Variable match whose register value is not
\* a string, applied to a string target, replaces the whole target by that
\* value when the target is exactly `${NAME}`; when the target has any
\* other content it fails and leaves the target as it was.
C14_NonStringReplacesOnlyStandalone ==
    [][ ( /\ rd_pc = "matched"
          /\ matches # <<>>
          /\ Head(matches).kind = "Variable"
          /\ ~IsString(Head(matches).value)
          /\ IsString(value) )
        => IF value.str = Decl(Head(matches).name)
           THEN rd_pc' = "matched" /\ value' = Head(matches).value
           ELSE rd_pc' = "err" /\ value' = value ]_vars


-----------------------------------------------------------------------------
(* Register::write_match                                                   *)

\* str::trim_start_matches(pat): the prefix is removed as often as it repeats
RECURSIVE trim_start_matches(_, _)
trim_start_matches(s, pat) ==
    IF pat # <<>> /\ starts_with(s, pat)
    THEN trim_start_matches(SubSeq(s, Len(pat) + 1, Len(s)), pat)
    ELSE s

\* str::trim_end_matches(pat): the suffix is removed as often as it repeats
RECURSIVE trim_end_matches(_, _)
trim_end_matches(s, pat) ==
    IF pat # <<>> /\ ends_with(s, pat)
    THEN trim_end_matches(SubSeq(s, 1, Len(s) - Len(pat)), pat)
    ELSE s

\* the lines of s ('.' of the regex does not match a line feed)
RECURSIVE Lines(_)
Lines(s) ==
    IF \A i \in 1..Len(s) : s[i] # "\n" THEN <<s>>
    ELSE LET nl == CHOOSE i \in 1..Len(s) :
                       s[i] = "\n" /\ \A j \in 1..(i - 1) : s[j] # "\n"
         IN  <<SubSeq(s, 1, nl - 1)>> \o Lines(SubSeq(s, nl + 1, Len(s)))

\* the captures of  (.*)(\\)?(\$\{var_name\})(.*)  in frame_str: one per line
\* that holds the declaration.  head_val is greedy, so it runs up to the last
\* declaration of the line and takes a backslash before it: esc_char never
\* takes part in a match.
WriteCaptures(var, frame) ==
    LET decl  == Decl(var)
        lines == Lines(frame)
        cap(line) ==
            LET k == CHOOSE i \in 0..Len(line) :
                         /\ OccursAt(line, decl, i)
                         /\ \A j \in (i + 1)..Len(line) : ~OccursAt(line, decl, j)
            IN  [esc_char |-> FALSE,
                 head_val |-> Slice(line, 0, k),
                 tail_val |-> Slice(line, k + Len(decl), Len(line))]
        hits == SelectSeq(lines, LAMBDA line : contains(line, decl))
    IN  [i \in 1..Len(hits) |-> cap(hits[i])]

\* the for loop of write_match: [res, matches]
RECURSIVE WriteMatchLoop(_, _, _)
WriteMatchLoop(caps, payload, acc) ==
    IF caps = <<>> THEN [res |-> "Ok", matches |-> acc]
    ELSE LET mat == Head(caps)
         IN  IF mat.esc_char THEN WriteMatchLoop(Tail(caps), payload, acc)
             ELSE IF ~(starts_with(payload, mat.head_val)
                       /\ ends_with(payload, mat.tail_val))
             THEN [res |-> "Err", matches |-> <<>>]
             ELSE WriteMatchLoop(Tail(caps), payload,
                      Append(acc, trim_end_matches(
                                      trim_start_matches(payload, mat.head_val),
                                      mat.tail_val)))

WmNone == [res |-> "Ok", some |-> FALSE, str |-> <<>>]
WmSome(m) == [res |-> "Ok", some |-> TRUE, str |-> m]
WmErr == [res |-> "Err", some |-> FALSE, str |-> <<>>]
WmPanic == [res |-> "Panic", some |-> FALSE, str |-> <<>>]

\* Register::write_match(var_name, frame_str, payload_str): [res, some, str]
write_match(var, frame, payload) ==
    LET loop == WriteMatchLoop(WriteCaptures(var, frame), payload, <<>>)
    IN  IF loop.res = "Err" THEN WmErr
        ELSE CASE Len(loop.matches) = 0 -> WmNone
               [] Len(loop.matches) = 1 -> WmSome(loop.matches[1])
               [] OTHER -> WmPanic     \* unreachable!()

-----------------------------------------------------------------------------
(* SpecWrite: write_match on bounded inputs (test_write_match)             *)

NameV == <<"V">>

MaxFramePieces == 3
MaxPayloadLen == 3

WriteFramePieces == { <<"a">>, <<"|">>, <<"\\">>, <<"\n">>, Decl(NameV) }
WritePayloadPieces == { <<"a">>, <<"|">>, <<"1">> }

InitWrite ==
    /\ wm_pc = "start"
    /\ var_name = NameV
    /\ frame_str \in Concats(WriteFramePieces, MaxFramePieces)
    /\ payload_str \in Concats(WritePayloadPieces, MaxPayloadLen)
    /\ wm_out = WmNone
    /\ reg = <<>>
    /\ IdleRead /\ IdleRegister /\ IdleValidation /\ IdleHydrate /\ IdleProcess
    /\ IdleRecord /\ IdleReel /\ IdleCmdRecord
    /\ IdleSerde

WriteMatch ==
    /\ wm_pc = "start"
    /\ wm_out' = write_match(var_name, frame_str, payload_str)
    /\ wm_pc' = "done"
    /\ UNCHANGED <<var_name, frame_str, payload_str>>
    /\ UNCHANGED <<reg, readVars, regVars, valVars, hydVars, procVars, recVars,
                 reelVars, cmdVars, serdeVars>>

NextWrite == WriteMatch

SpecWrite == InitWrite /\ [][NextWrite]_vars

\* C5: for every split frame_str = P ++ "${var}" ++ S such that the payload
\* starts with P, ends with S and holds both without overlap, write_match
\* returns Some(payload without its first len(P) and last len(S) characters).
C5_WriteMatchCapturesMiddle ==
    wm_pc = "done" =>
        \A k \in 0..Len(frame_str) :
            LET P == Slice(frame_str, 0, k)
                S == Slice(frame_str, k + Len(Decl(var_name)), Len(frame_str))
            IN  ( /\ OccursAt(frame_str, Decl(var_name), k)
                  /\ starts_with(payload_str, P)
                  /\ ends_with(payload_str, S)
                  /\ Len(P) + Len(S) <= Len(payload_str) )
                => wm_out = WmSome(Slice(payload_str, Len(P),
                                         Len(payload_str) - Len(S)))

\* `${var_name}` stands at offset k of frame_str with no backslash before it
UnescapedAt(k) ==
    /\ OccursAt(frame_str, Decl(var_name), k)
    /\ (k = 0 \/ frame_str[k] # "\\")

\* C24: write_match fails with the template mismatch error whenever
\* frame_str holds an unescaped `${var}` and payload_str does not start with
\* the text before it or does not end with the text after it, and returns
\* None when frame_str holds no `${var}`.
C24_MismatchIsAnError ==
    wm_pc = "done" =>
        /\ \A k \in 0..Len(frame_str) :
              LET P == Slice(frame_str, 0, k)
                  S == Slice(frame_str, k + Len(Decl(var_name)), Len(frame_str))
              IN  ( /\ UnescapedAt(k)
                    /\ ~(starts_with(payload_str, P) /\ ends_with(payload_str, S)) )
                  => wm_out = WmErr
        /\ ~contains(frame_str, Decl(var_name)) => wm_out = WmNone


-----------------------------------------------------------------------------
(* SpecRegister: a Register from Register::new on, under Register::from,   *)
(* the register! macro, write_operation, destructive_merge, flush_ignored  *)

NameT  == <<"t">>            \* an ignored name
NameA1 == <<"A", "1">>       \* a digit after the first character
Name1A == <<"1", "A">>       \* a digit first
NamePc == <<"A", "%">>       \* a character no name may hold

RegNames == {NameA, NameT, NameH, NameA1, Name1A, NamePc}
RegValues == {Str(<<"1">>), Other(1)}

\* cut documents: flat JSON objects, whatever their keys
CutDocs ==
    { EmptyRegister,
      NameA :> Str(<<"1">>),
      (NameA :> Other(1)) @@ (NameT :> Str(<<"1">>)),
      (NameA1 :> Str(<<"1">>)) @@ (NameH :> Other(1)),
      Name1A :> Str(<<"1">>),
      (NamePc :> Other(1)) @@ (NameT :> Other(1)) }

MaxOthers == 2

RECURSIVE SeqsUpTo(_, _)
SeqsUpTo(S, n) ==
    IF n = 0 THEN {<<>>}
    ELSE LET shorter == SeqsUpTo(S, n - 1)
         IN  shorter \cup {Append(q, x) : q \in shorter, x \in S}

RegOp(name, before, key, val, others, ok, prev) ==
    [op |-> name, before |-> before, key |-> key, val |-> val,
     others |-> others, ok |-> ok, prev |-> prev]

InitRegister ==
    /\ rg_pc = "live"
    /\ reg = EmptyRegister                      \* Register::new()
    /\ rg_op = RegOp("new", EmptyRegister, <<>>, NoValue, <<>>, TRUE, NoValue)
    /\ IdleRead /\ IdleWrite /\ IdleValidation /\ IdleHydrate /\ IdleProcess
    /\ IdleRecord /\ IdleReel /\ IdleCmdRecord
    /\ IdleSerde

\* reg = Register::from(doc)
RegFrom ==
    /\ rg_pc = "live"
    /\ \E doc \in CutDocs :
        /\ reg' = RegisterFrom(doc)
        /\ rg_op' = RegOp("from", reg, <<>>, NoValue, <<doc>>, TRUE, NoValue)
    /\ UNCHANGED <<rg_pc, readVars, writeVars, valVars, hydVars, procVars, recVars,
                 reelVars, cmdVars, serdeVars>>

\* reg = register!({ key => val }): write_operation(..).expect(..) on a
\* default register; an invalid key panics and no register comes of it
RegMacro ==
    /\ rg_pc = "live"
    /\ \E key \in RegNames, val \in RegValues :
        LET w == write_operation(EmptyRegister, key, val)
        IN  /\ w.ok
            /\ reg' = w.reg
            /\ rg_op' = RegOp("register!", reg, key, val, <<>>, TRUE, NoValue)
    /\ UNCHANGED <<rg_pc, readVars, writeVars, valVars, hydVars, procVars, recVars,
                 reelVars, cmdVars, serdeVars>>

\* reg.write_operation(key, val)
RegWriteOperation ==
    /\ rg_pc = "live"
    /\ \E key \in RegNames, val \in RegValues :
        LET w == write_operation(reg, key, val)
        IN  /\ reg' = w.reg
            /\ rg_op' = RegOp("write_operation", reg, key, val, <<>>,
                              w.ok, w.prev)
    /\ UNCHANGED <<rg_pc, readVars, writeVars, valVars, hydVars, procVars, recVars,
                 reelVars, cmdVars, serdeVars>>

\* reg.destructive_merge(others), each other read by Register::from
RegDestructiveMerge ==
    /\ rg_pc = "live"
    /\ \E docs \in SeqsUpTo(CutDocs, MaxOthers) :
        LET others == [i \in 1..Len(docs) |-> RegisterFrom(docs[i])]
        IN  /\ reg' = destructive_merge(reg, others)
            /\ rg_op' = RegOp("destructive_merge", reg, <<>>, NoValue, others,
                              TRUE, NoValue)
    /\ UNCHANGED <<rg_pc, readVars, writeVars, valVars, hydVars, procVars, recVars,
                 reelVars, cmdVars, serdeVars>>

\* reg.flush_ignored()
RegFlushIgnored ==
    /\ rg_pc = "live"
    /\ reg' = flush_ignored(reg)
    /\ rg_op' = RegOp("flush_ignored", reg, <<>>, NoValue, <<>>, TRUE, NoValue)
    /\ UNCHANGED <<rg_pc, readVars, writeVars, valVars, hydVars, procVars, recVars,
                 reelVars, cmdVars, serdeVars>>

NextRegister ==
    \/ RegFrom \/ RegMacro \/ RegWriteOperation
    \/ RegDestructiveMerge \/ RegFlushIgnored

SpecRegister == InitRegister /\ [][NextRegister]_vars

\* the variable-name regex of the data model: [A-Za-z_][A-Za-z0-9_]*
VariableName(key) ==
    /\ Len(key) >= 1
    /\ key[1] \in Upper \cup Lower \cup {"_"}
    /\ \A i \in 1..Len(key) : NameChar(key[i])

\* C9: in every reachable state of a Register every key satisfies the
\* variable-name regex.
C9_EveryKeyIsAVariableName ==
    rg_pc = "live" => \A key \in DOMAIN reg : VariableName(key)

\* C20: write_operation(k, v) succeeds exactly when k satisfies the
\* variable-name regex; on success the entry is overwritten and the previous
\* value returned, otherwise the call fails and the register is unchanged.
C20_WriteOperationChecksTheName ==
    (rg_pc = "live" /\ rg_op.op = "write_operation") =>
        IF VariableName(rg_op.key)
        THEN /\ rg_op.ok
             /\ reg = insert(rg_op.before, rg_op.key, rg_op.val)
             /\ rg_op.prev = get(rg_op.before, rg_op.key)
        ELSE /\ ~rg_op.ok
             /\ reg = rg_op.before

-----------------------------------------------------------------------------
(* SpecMerge: a Register read from a cut document, then one               *)
(* destructive_merge of other cut registers, then flush_ignored            *)

\* reg.destructive_merge(others) on a register just built
MergeOnce ==
    /\ rg_pc = "built"
    /\ \E docs \in SeqsUpTo(CutDocs, MaxOthers) :
        LET others == [i \in 1..Len(docs) |-> RegisterFrom(docs[i])]
        IN  /\ reg' = destructive_merge(reg, others)
            /\ rg_op' = RegOp("destructive_merge", reg, <<>>, NoValue, others,
                              TRUE, NoValue)
    /\ rg_pc' = "merged"
    /\ UNCHANGED <<readVars, writeVars, valVars, hydVars, procVars, recVars,
                 reelVars, cmdVars, serdeVars>>

\* reg.flush_ignored() on a register built or merged
FlushOnce ==
    /\ rg_pc \in {"built", "merged"}
    /\ reg' = flush_ignored(reg)
    /\ rg_op' = RegOp("flush_ignored", reg, <<>>, NoValue, <<>>, TRUE, NoValue)
    /\ rg_pc' = "flushed"
    /\ UNCHANGED <<readVars, writeVars, valVars, hydVars, procVars, recVars,
                 reelVars, cmdVars, serdeVars>>

InitMerge ==
    /\ rg_pc = "built"
    /\ \E doc \in CutDocs :
        /\ reg = RegisterFrom(doc)
        /\ rg_op = RegOp("from", EmptyRegister, <<>>, NoValue, <<doc>>, TRUE, NoValue)
    /\ IdleRead /\ IdleWrite /\ IdleValidation /\ IdleHydrate /\ IdleProcess
    /\ IdleRecord /\ IdleReel /\ IdleCmdRecord
    /\ IdleSerde

NextMerge == MergeOnce \/ FlushOnce

SpecMerge == InitMerge /\ [][NextMerge]_vars

\* the positions of `others` whose register holds key
Containing(others, key) == {i \in 1..Len(others) : key \in DOMAIN others[i]}

MaxOf(positions) == CHOOSE i \in positions : \A j \in positions : j <= i

\* C21: after destructive_merge(others) each key holds the value of the last
\* register of `others` that contains it, or its previous value in self when
\* no register of `others` contains it; the keys are those of self and of
\* every register of `others`: none is removed, ignored names included.
C21_DestructiveMergeIsLastWinsUnion ==
    (rg_pc = "merged") =>
        /\ DOMAIN reg = DOMAIN rg_op.before \cup
                UNION {DOMAIN rg_op.others[i] : i \in 1..Len(rg_op.others)}
        /\ \A key \in DOMAIN reg :
              IF Containing(rg_op.others, key) = {}
              THEN reg[key] = rg_op.before[key]
              ELSE reg[key] =
                     rg_op.others[MaxOf(Containing(rg_op.others, key))][key]

\* C21 witness: self held A and the ignored name t; two registers were
\* merged, both holding A with different values and the second holding t:
\* A has the second register's value and t is still there
C21_SecondOverwroteFirst ==
    /\ rg_pc = "merged"
    /\ Len(rg_op.others) = 2
    /\ NameA \in DOMAIN rg_op.before /\ NameT \in DOMAIN rg_op.before
    /\ NameA \in DOMAIN rg_op.others[1] /\ NameA \in DOMAIN rg_op.others[2]
    /\ rg_op.others[1][NameA] # rg_op.others[2][NameA]
    /\ rg_op.before[NameA] # rg_op.others[2][NameA]
    /\ reg[NameA] = rg_op.others[2][NameA]
    /\ NameT \in DOMAIN reg

\* the ignored-name regex of the data model: ^[a-z_]+$
IgnoredName(key) ==
    Len(key) >= 1 /\ \A i \in 1..Len(key) : key[i] \in Lower \cup {"_"}

\* C22: after flush_ignored() no key matching ^[a-z_]+$ remains in the
\* register, and every key that does not match it is still present with its
\* value unchanged.
C22_FlushRemovesExactlyTheIgnored ==
    rg_pc = "flushed" =>
        /\ \A key \in DOMAIN reg : ~IgnoredName(key)
        /\ \A key \in DOMAIN rg_op.before :
              ~IgnoredName(key) =>
                  key \in DOMAIN reg /\ reg[key] = rg_op.before[key]

\* C22 witness: the register held A1, _h and t after a merge; the flush
\* removed _h and t and left A1
C22_FlushedAfterMerge ==
    /\ rg_pc = "flushed"
    /\ {NameA1, NameH, NameT} \subseteq DOMAIN rg_op.before
    /\ NameA1 \in DOMAIN reg /\ reg[NameA1] = rg_op.before[NameA1]
    /\ NameH \notin DOMAIN reg /\ NameT \notin DOMAIN reg


-----------------------------------------------------------------------------
(* Validator::apply_unordered, Validator::apply_partial and                *)
(* Response::apply_validation on an array selection                        *)

\* array elements: a JSON value and the Key hash_value gives it.  An object
\* is hashed by its key set alone, so ObjT and ObjF share a Key.
Elem(key, val) == [key |-> key, val |-> val]
ElemA == Elem("A", 0)
ElemB == Elem("B", 0)
ObjT == Elem("{this}", 1)      \* {"this": true}
ObjF == Elem("{this}", 2)      \* {"this": false}
Null == Elem("null", 0)        \* Value::Null

hash_value(v) == v.key

\* Vec::retain on the positions that are not placeholders
Retain(arr, placeholder_indices) ==
    LET keep == SelectSeq([i \in 1..Len(arr) |-> i],
                          LAMBDA i : i \notin placeholder_indices)
    IN  [j \in 1..Len(keep) |-> arr[keep[j]]]

\* other_idx_map: Key -> the positions of the payload that hold it, ascending
OtherIdxMap(oth) ==
    [k \in {hash_value(oth[i]) : i \in 1..Len(oth)} |->
        SelectSeq([i \in 1..Len(oth) |-> i],
                  LAMBDA i : hash_value(oth[i]) = k)]

\* the loop over the frame-side array; Vec::remove(0) panics on an empty Vec
RECURSIVE UnorderedLoop(_, _, _, _, _, _)
UnorderedLoop(slf, to_idx, idx_map, oth, sink, placeholder_indices) ==
    IF to_idx > Len(slf)
    THEN [res |-> "Ok", other |-> oth, sink |-> sink,
          placeholder |-> placeholder_indices]
    ELSE LET v_hash == hash_value(slf[to_idx])
         IN  IF v_hash \in DOMAIN idx_map
             THEN IF idx_map[v_hash] = <<>>
                  THEN [res |-> "Panic", other |-> oth, sink |-> sink,
                        placeholder |-> placeholder_indices]
                  ELSE LET from_idx == Head(idx_map[v_hash])
                       IN  UnorderedLoop(
                               slf, to_idx + 1,
                               [idx_map EXCEPT ![v_hash] = Tail(@)],
                               [oth EXCEPT ![from_idx] = Null],
                               Append(sink, oth[from_idx]),
                               placeholder_indices \cup {from_idx})
             ELSE UnorderedLoop(slf, to_idx + 1, idx_map, oth, sink,
                                placeholder_indices)

\* [res, other]: the payload array as apply_unordered leaves it
apply_unordered(slf, oth) ==
    LET l == UnorderedLoop(slf, 1, OtherIdxMap(oth), oth, <<>>, {})
    IN  IF l.res = "Panic" THEN [res |-> "Panic", other |-> l.other]
        ELSE IF l.sink = <<>> THEN [res |-> "Ok", other |-> oth]
        ELSE [res |-> "Ok", other |-> l.sink \o Retain(l.other, l.placeholder)]

\* a rolling check that stops one position short of the end
apply_partial_stops_short(slf, oth) ==
    IF Len(slf) >= Len(oth) THEN oth
    ELSE IF \E i \in 0..(Len(oth) - Len(slf) - 1) :
                SubSeq(oth, i + 1, i + Len(slf)) = slf
         THEN slf
         ELSE oth

\* the payload array as apply_partial leaves it
apply_partial(slf, oth) ==
    IF Len(slf) >= Len(oth) THEN oth
    ELSE IF \E i \in 0..(Len(oth) - Len(slf)) :
                SubSeq(oth, i + 1, i + Len(slf)) = slf
         THEN slf
         ELSE oth

apply_validation(v, slf, oth) ==
    IF ~v.partial /\ ~v.unordered THEN [res |-> "Ok", other |-> oth]
    ELSE LET u == IF v.unordered THEN apply_unordered(slf, oth)
                  ELSE [res |-> "Ok", other |-> oth]
         IN  IF u.res # "Ok" THEN u
             ELSE IF v.partial
                  THEN [res |-> "Ok", other |-> apply_partial(slf, u.other)]
                  ELSE u

MaxArray == 3
Elems == {ElemA, ElemB, ObjT, ObjF}
Arrays == SeqsUpTo(Elems, MaxArray)
Validators == [partial : BOOLEAN, unordered : BOOLEAN]

InitValidation ==
    /\ va_pc = "start"
    /\ rule \in Validators
    /\ self_selection \in Arrays
    /\ other_selection \in Arrays
    /\ va_out = <<>>
    /\ reg = <<>>
    /\ IdleRead /\ IdleWrite /\ IdleRegister /\ IdleHydrate /\ IdleProcess
    /\ IdleRecord /\ IdleReel /\ IdleCmdRecord
    /\ IdleSerde

ApplyValidation ==
    /\ va_pc = "start"
    /\ va_out' = apply_validation(rule, self_selection, other_selection)
    /\ va_pc' = "done"
    /\ UNCHANGED <<rule, self_selection, other_selection>>
    /\ UNCHANGED <<reg, readVars, writeVars, regVars, hydVars, procVars, recVars,
                 reelVars, cmdVars, serdeVars>>

NextValidation == ApplyValidation

SpecValidation == InitValidation /\ [][NextValidation]_vars

Count(arr, e) == Cardinality({i \in 1..Len(arr) : arr[i] = e})

\* the same elements with the same multiplicities
IsReordering(a, b) ==
    /\ Len(a) = Len(b)
    /\ \A i \in 1..Len(a) : Count(a, a[i]) = Count(b, a[i])

\* C10: with unordered alone on an array selection, apply_validation returns
\* normally, and afterwards the payload array equals the frame array exactly
\* when the payload was a reordering of the frame array.
C10_UnorderedMatchesReorderings ==
    (va_pc = "done" /\ rule.unordered /\ ~rule.partial) =>
        /\ va_out.res = "Ok"
        /\ (va_out.other = self_selection
                <=> IsReordering(self_selection, other_selection))


\* the frame array occurs in the payload array as a contiguous run
OccursAsRun(a, b) ==
    \E k \in 0..Len(b) :
        /\ k + Len(a) <= Len(b)
        /\ \A j \in 1..Len(a) : b[k + j] = a[j]

\* C11: with partial alone on an array selection, apply_validation replaces
\* the payload array by the frame array exactly when the frame array occurs
\* in the payload array as a contiguous run in the same order, and leaves the
\* payload array as it was otherwise.
C11_PartialArrayMatchesContiguousRuns ==
    (va_pc = "done" /\ rule.partial /\ ~rule.unordered) =>
        /\ va_out.res = "Ok"
        /\ va_out.other = IF OccursAsRun(self_selection, other_selection)
                          THEN self_selection
                          ELSE other_selection

\* C11 witness: the frame array [A, B] was found at the end of the payload
\* array [{this: true}, A, B], which was replaced by it
C11_FoundAtTheEnd ==
    /\ va_pc = "done"
    /\ rule.partial /\ ~rule.unordered
    /\ self_selection = <<ElemA, ElemB>>
    /\ other_selection = <<ObjT, ElemA, ElemB>>
    /\ va_out.other = <<ElemA, ElemB>>

\* a is b with some elements left out, the order kept
RECURSIVE IsSubsequence(_, _)
IsSubsequence(a, b) ==
    IF a = <<>> THEN TRUE
    ELSE IF b = <<>> THEN FALSE
    ELSE IF Head(a) = Head(b) THEN IsSubsequence(Tail(a), Tail(b))
    ELSE IsSubsequence(a, Tail(b))

Keys(arr) == [i \in 1..Len(arr) |-> hash_value(arr[i])]

\* C30: the unordered rewrite only reorders: apply_unordered returns
\* normally and the payload array afterwards has the same length and the same
\* elements with the same multiplicities as before; the elements matched to
\* frame-side elements come first, in frame order, and the unmatched payload
\* elements follow in their original order.
C30_UnorderedOnlyReorders ==
    (va_pc = "done" /\ rule.unordered /\ ~rule.partial) =>
        /\ va_out.res = "Ok"
        /\ IsReordering(va_out.other, other_selection)
        /\ \E k \in 0..Len(va_out.other) :
              /\ IsSubsequence(Keys(SubSeq(va_out.other, 1, k)),
                               Keys(self_selection))
              /\ IsSubsequence(SubSeq(va_out.other, k + 1, Len(va_out.other)),
                               other_selection)

-----------------------------------------------------------------------------
(* Validator::apply_partial and Response::apply_validation on a selection  *)
(* that may be an object, an array, another value or nothing               *)

PartialKeys == {"A", "B", "D"}
Absent == "absent"
NoFields == [k \in PartialKeys |-> Absent]

\* what a selector gives on a body
ArraySel(items) == [kind |-> "Array", items |-> items, fields |-> NoFields]
ObjectSel(fields) == [kind |-> "Object", items |-> <<>>, fields |-> fields]
OtherSel == [kind |-> "Other", items |-> <<>>, fields |-> NoFields]
NoSel == [kind |-> "None", items |-> <<>>, fields |-> NoFields]

\* o.object_keys()
object_keys(o) == {k \in PartialKeys : o.fields[k] # Absent}

\* other_selection.remove(&k)
remove_key(o, k) == [o EXCEPT !.fields[k] = Absent]

\* an apply_partial whose object arm removes no key
Validator_apply_partial_removes_nothing(slf, oth) ==
    CASE slf.kind = "None" -> [res |-> "Err", other |-> oth]
      [] slf.kind = "Object" -> [res |-> "Ok", other |-> oth]
      [] slf.kind = "Array" ->
            IF oth.kind # "Array" THEN [res |-> "Ok", other |-> oth]
            ELSE [res |-> "Ok",
                  other |-> [oth EXCEPT !.items = apply_partial(slf.items, @)]]
      [] OTHER -> [res |-> "Err", other |-> oth]

\* Validator::apply_partial: [res, other]
Validator_apply_partial(slf, oth) ==
    CASE slf.kind = "None" -> [res |-> "Err", other |-> oth]
      [] slf.kind = "Object" ->
            IF oth.kind # "Object" THEN [res |-> "Ok", other |-> oth]
            ELSE [res |-> "Ok",
                  other |-> [oth EXCEPT !.fields =
                                [k \in PartialKeys |->
                                    IF k \in object_keys(oth) /\ k \notin object_keys(slf)
                                    THEN remove_key(oth, k).fields[k]
                                    ELSE oth.fields[k]]]]
      [] slf.kind = "Array" ->
            IF oth.kind # "Array" THEN [res |-> "Ok", other |-> oth]
            ELSE [res |-> "Ok",
                  other |-> [oth EXCEPT !.items = apply_partial(slf.items, @)]]
      [] OTHER -> [res |-> "Err", other |-> oth]

\* Validator::apply_unordered: [res, other]
Validator_apply_unordered(slf, oth) ==
    CASE slf.kind = "None" -> [res |-> "Err", other |-> oth]
      [] slf.kind = "Object" -> [res |-> "Ok", other |-> oth]
      [] slf.kind = "Array" ->
            IF oth.kind # "Array" THEN [res |-> "Ok", other |-> oth]
            ELSE LET Done(u) ==
                         [res |-> u.res, other |-> [oth EXCEPT !.items = u.other]]
                 IN  Done(apply_unordered(slf.items, oth.items))
      [] OTHER -> [res |-> "Err", other |-> oth]

\* an apply_validation that runs the partial rewrite before the unordered one
Response_apply_validation_partial_first(v, slf, oth) ==
    LET Unordered(u) ==
            IF u.res # "Ok" \/ ~v.unordered THEN u
            ELSE Validator_apply_unordered(slf, u.other)
    IN  IF ~v.partial /\ ~v.unordered THEN [res |-> "Ok", other |-> oth]
        ELSE Unordered(IF v.partial THEN Validator_apply_partial(slf, oth)
                       ELSE [res |-> "Ok", other |-> oth])

\* Response::apply_validation with one validator: [res, other]
Response_apply_validation(v, slf, oth) ==
    LET Partial(u) ==
            IF u.res # "Ok" \/ ~v.partial THEN u
            ELSE Validator_apply_partial(slf, u.other)
    IN  IF ~v.partial /\ ~v.unordered THEN [res |-> "Ok", other |-> oth]
        ELSE Partial(IF v.unordered THEN Validator_apply_unordered(slf, oth)
                     ELSE [res |-> "Ok", other |-> oth])

MaxSelArray == 2

\* the arrays of case 7 of test_partial_unordered_validation
ElemC == Elem("C", 0)
ElemOtherValue == Elem("other_value", 0)
ElemFalse == Elem("false", 0)
Case7Frame == <<ElemA, ElemB, ElemC>>
Case7Payload == <<ElemOtherValue, ElemFalse, ElemB, ElemA, ElemC, ElemB>>

Selections ==
    {ObjectSel(f) : f \in [PartialKeys -> {Absent, "true", "false"}]}
        \cup {ArraySel(a) : a \in SeqsUpTo({ElemA, ElemB}, MaxSelArray)}
        \cup {ArraySel(Case7Frame), ArraySel(Case7Payload)}
        \cup {OtherSel, NoSel}

InitSelection ==
    /\ va_pc = "select"
    /\ rule \in Validators
    /\ self_selection \in Selections
    /\ other_selection \in Selections \ {NoSel}
    /\ va_out = <<>>
    /\ reg = <<>>
    /\ IdleRead /\ IdleWrite /\ IdleRegister /\ IdleHydrate /\ IdleProcess
    /\ IdleRecord /\ IdleReel /\ IdleCmdRecord
    /\ IdleSerde

ApplyValidationOnSelection ==
    /\ va_pc = "select"
    /\ va_out' = Response_apply_validation(rule, self_selection, other_selection)
    /\ va_pc' = "selected"
    /\ UNCHANGED <<rule, self_selection, other_selection>>
    /\ UNCHANGED <<reg, readVars, writeVars, regVars, hydVars, procVars, recVars,
                 reelVars, cmdVars, serdeVars>>

NextSelection == ApplyValidationOnSelection

SpecSelection == InitSelection /\ [][NextSelection]_vars

\* C12: with partial on an object selection, apply_validation removes from
\* the payload object exactly the keys the frame object does not have and
\* leaves every other key and value as it was; the payload then equals the
\* frame object exactly when every key of the frame object is in the payload
\* with an equal value.
C12_PartialObjectDropsForeignKeys ==
    ( /\ va_pc = "selected"
      /\ rule.partial
      /\ self_selection.kind = "Object"
      /\ other_selection.kind = "Object" ) =>
        /\ va_out.res = "Ok"
        /\ va_out.other.kind = "Object"
        /\ object_keys(va_out.other) = object_keys(other_selection) \cap object_keys(self_selection)
        /\ \A k \in object_keys(va_out.other) :
              va_out.other.fields[k] = other_selection.fields[k]
        /\ (va_out.other = self_selection
              <=> \A k \in object_keys(self_selection) :
                      other_selection.fields[k] = self_selection.fields[k])

\* C12 witness: the frame object {A: true, B: true} against the payload
\* {A: true, B: true, D: true}: D was dropped and the two are equal
C12_DroppedD ==
    /\ va_pc = "selected"
    /\ rule.partial
    /\ self_selection =
          ObjectSel([k \in PartialKeys |-> IF k = "D" THEN Absent ELSE "true"])
    /\ other_selection = ObjectSel([k \in PartialKeys |-> "true"])
    /\ va_out.res = "Ok"
    /\ va_out.other = self_selection


\* the partial rewrite on what the unordered rewrite returned
PartialOfUnordered(slf, oth) ==
    LET Partial(u) ==
            IF u.res # "Ok" THEN u ELSE Validator_apply_partial(slf, u.other)
    IN  Partial(Validator_apply_unordered(slf, oth))

\* C28: a rule that sets both partial and unordered runs the unordered
\* rewrite first and the partial rewrite on its result: what apply_validation
\* leaves is partial(unordered(payload)) for every frame and payload
\* selection; on two arrays it is the frame array when the frame array is a
\* contiguous run of the reordered payload, and the reordered payload
\* otherwise.
C28_UnorderedThenPartial ==
    (va_pc = "selected" /\ rule.partial /\ rule.unordered) =>
        /\ va_out = PartialOfUnordered(self_selection, other_selection)
        /\ ( /\ self_selection.kind = "Array"
             /\ other_selection.kind = "Array"
             /\ va_out.res = "Ok" ) =>
               LET u == apply_unordered(self_selection.items,
                                        other_selection.items).other
               IN  va_out.other.items =
                       IF OccursAsRun(self_selection.items, u)
                       THEN self_selection.items
                       ELSE u

\* C28 witness: case 7 of test_partial_unordered_validation: the frame array
\* [A, B, C] against [other_value, false, B, A, C, B] leaves [A, B, C]
C28_Case7LeavesTheFrameArray ==
    /\ va_pc = "selected"
    /\ rule.partial /\ rule.unordered
    /\ self_selection = ArraySel(Case7Frame)
    /\ other_selection = ArraySel(Case7Payload)
    /\ va_out.res = "Ok"
    /\ va_out.other = ArraySel(Case7Frame)


-----------------------------------------------------------------------------
(* Frame, InstructionSet, Request, Response and Frame::hydrate             *)

\* a JSON object with one entry, key: val
Obj(key, val) == [kind |-> "Object", str |-> key, id |-> 0, val |-> val]
EmptyObj == Other(0)     \* {}

InstructionSet(reads, writes, hydrate_writes) ==
    [reads |-> reads, writes |-> writes, hydrate_writes |-> hydrate_writes]

\* an InstructionSet that passes for declaring every name
set_contains_any_name(set, var) == TRUE

\* InstructionSet::contains
set_contains(set, var) == var \in set.reads \/ var \in DOMAIN set.writes

\* the errors of hydrate_str by the place that raises them
UnknownSetVariable == "UnknownSetVariable"  \* not present in InstructionSet
ReadMatchError == "read_match"
ReadOperationError == "read_operation"
ExpectPanic == "expect"

\* the loop of hydrate_str over the matches: [res, value, err]
RECURSIVE HydrateStrLoop(_, _, _, _, _)
HydrateStrLoop(set, ms, string, r, hide) ==
    IF ms = <<>> THEN [res |-> "Ok", value |-> string, err |-> ""]
    ELSE LET mat == Head(ms)
             Rest(ro) == IF ro.res = "Ok"
                         THEN HydrateStrLoop(set, Tail(ms), ro.value, r, hide)
                         ELSE [res |-> ro.res, value |-> ro.value,
                               err |-> ReadOperationError]
         IN  IF mat.kind = "Variable" /\ ~set_contains(set, mat.name)
             THEN [res |-> "Err", value |-> string, err |-> UnknownSetVariable]
             ELSE IF /\ mat.kind = "Variable"      \* else mat.name() is None
                     /\ \/ mat.name \in set.reads
                        \/ (mat.name \in DOMAIN set.writes /\ set.hydrate_writes)
             THEN Rest(read_operation(r, mat, string, hide))
             ELSE Rest([res |-> "Ok", value |-> string])

\* Frame::hydrate_str: [res, value]
hydrate_str(set, string, r, hide) ==
    IF ~IsString(string)
    THEN [res |-> "Panic", value |-> string,     \* as_str().expect(..)
          err |-> ExpectPanic]
    ELSE LET rm == read_match(r, string.str)
         IN  IF ~rm.ok
             THEN [res |-> "Err", value |-> string, err |-> ReadMatchError]
             ELSE HydrateStrLoop(set, rm.matches, string, r, hide)

\* Frame::hydrate_val: [res, value]; the keys of an object are left alone
hydrate_val(set, val, r, hide) ==
    CASE val.kind = "Object" ->
            LET Entry(inner) ==
                    [res |-> inner.res, value |-> [val EXCEPT !.val = inner.value],
                     err |-> inner.err]
            IN  Entry(IF IsString(val.val)
                      THEN hydrate_str(set, val.val, r, hide)
                      ELSE [res |-> "Ok", value |-> val.val, err |-> ""])
      [] val.kind = "String" -> hydrate_str(set, val, r, hide)
      [] OTHER -> [res |-> "Ok", value |-> val, err |-> ""]

\* the fields Frame::hydrate visits, in its order
HydrateOrder ==
    << "request.body", "request.etc", "response.body", "response.etc",
       "request.header", "request.uri", "request.entrypoint" >>

Field(f, name) ==
    CASE name = "request.body"       -> f.request.body
      [] name = "request.etc"        -> f.request.etc
      [] name = "response.body"      -> f.response.body
      [] name = "response.etc"       -> f.response.etc
      [] name = "request.header"     -> f.request.header
      [] name = "request.uri"        -> f.request.uri
      [] name = "request.entrypoint" -> f.request.entrypoint

WithField(f, name, v) ==
    CASE name = "request.body"       -> [f EXCEPT !.request.body = v]
      [] name = "request.etc"        -> [f EXCEPT !.request.etc = v]
      [] name = "response.body"      -> [f EXCEPT !.response.body = v]
      [] name = "response.etc"       -> [f EXCEPT !.response.etc = v]
      [] name = "request.header"     -> [f EXCEPT !.request.header = v]
      [] name = "request.uri"        -> [f EXCEPT !.request.uri = v]
      [] name = "request.entrypoint" -> [f EXCEPT !.request.entrypoint = v]

\* response.body, request.header and request.entrypoint are Options
IsOption(name) ==
    name \in {"response.body", "request.header", "request.entrypoint"}

\* request.uri and request.entrypoint go to hydrate_str directly
HydrateField(set, name, val, r, hide) ==
    IF IsOption(name) /\ val = NoValue
    THEN [res |-> "Ok", value |-> val, err |-> ""]
    ELSE IF name \in {"request.uri", "request.entrypoint"}
    THEN hydrate_str(set, val, r, hide)
    ELSE hydrate_val(set, val, r, hide)

\* Frame::hydrate, each step ending the call on an error: [res, frame, err]
RECURSIVE HydrateFrom(_, _, _, _, _)
HydrateFrom(f, set, names, r, hide) ==
    IF names = <<>> THEN [res |-> "Ok", frame |-> f, err |-> ""]
    ELSE LET Step(h, g) ==
                 IF h.res = "Ok" THEN HydrateFrom(g, set, Tail(names), r, hide)
                 ELSE [res |-> h.res, frame |-> g, err |-> h.err]
             Set(h) == Step(h, WithField(f, Head(names), h.value))
         IN  Set(HydrateField(set, Head(names), Field(f, Head(names)), r, hide))

hydrate(f, r, hide) == HydrateFrom(f, f.cut, HydrateOrder, r, hide)


-----------------------------------------------------------------------------
(* SpecHydrate: Frame::hydrate on bounded frames and registers             *)

Request(body, header, entrypoint, etc, uri) ==
    [body |-> body, header |-> header, entrypoint |-> entrypoint,
     etc |-> etc, uri |-> uri]

Response(body, etc, status) == [body |-> body, etc |-> etc, status |-> status]

Frame(cut, request, response) ==
    [protocol |-> "HTTP", cut |-> cut, request |-> request,
     response |-> response]

SelBody == "'response'.'body'"
SelBodyKey == "'response'.'body'.'k'"

NameW == <<"W">>      \* a variable of `to`
NameZ == <<"Z">>      \* in the register, in neither `from` nor `to`
KeyK == <<"k">>

MaxHydratePieces == 2

HydratePieces ==
    { <<"\\">>, <<"x">>, <<"$", "{">>,
      Decl(NameA), Decl(NameO), Decl(NameW), Decl(NameZ), Decl(NameH) }

HydrateStrings == Concats(HydratePieces, MaxHydratePieces)

\* request bodies: a string, an object with one string entry, a number
HydrateBodies ==
    {Str(t) : t \in HydrateStrings}
        \cup {Obj(k, Str(t)) : k \in {KeyK, Decl(NameA)}, t \in HydrateStrings}
        \cup {Other(1)}

\* the rest of the frame: request etc, header, entrypoint and uri, response
RefA == Str(Decl(NameA))
HydrateRests ==
    { [etc |-> EmptyObj, header |-> NoValue, entrypoint |-> NoValue,
       uri |-> Str(<<"x">>), response |-> Response(NoValue, EmptyObj, 200)],
      [etc |-> Obj(KeyK, RefA), header |-> Obj(KeyK, RefA),
       entrypoint |-> RefA, uri |-> RefA,
       response |-> Response(RefA, Obj(KeyK, RefA), 200)],
      [etc |-> EmptyObj, header |-> NoValue, entrypoint |-> Other(1),
       uri |-> RefA,
       response |-> Response(Str(Decl(NameW)), EmptyObj, 200)],
      [etc |-> EmptyObj, header |-> NoValue, entrypoint |-> NoValue,
       uri |-> Other(1),
       response |-> Response(Obj(KeyK, Str(Decl(NameW))), EmptyObj, 200)] }

HydrateCuts ==
    { InstructionSet({NameA, NameO, NameH}, EmptyRegister, FALSE),
      InstructionSet({NameA, NameO, NameH}, NameW :> SelBody, FALSE),
      InstructionSet({NameA}, NameW :> SelBody, TRUE) }

HydrateRegisters ==
    { (NameA :> Str(<<"1">>)) @@ (NameO :> Other(1)) @@ (NameW :> Str(<<"w">>))
        @@ (NameZ :> Str(<<"z">>)) @@ (NameH :> Str(<<"s">>)),
      (NameA :> Str(Decl(NameO))) @@ (NameO :> Str(<<"o">>))
        @@ (NameH :> Other(2)) }

InitHydrate ==
    /\ hy_pc = "start"
    /\ reg \in HydrateRegisters
    /\ \E cut \in HydrateCuts, body \in HydrateBodies, rest \in HydrateRests :
          hy_frame0 = Frame(cut,
                            Request(body, rest.header, rest.entrypoint,
                                    rest.etc, rest.uri),
                            rest.response)
    /\ hy_frame = hy_frame0
    /\ hy_hide \in BOOLEAN
    /\ hy_out = <<>>
    /\ hy_err = ""
    /\ IdleRead /\ IdleWrite /\ IdleRegister /\ IdleValidation /\ IdleProcess
    /\ IdleRecord /\ IdleReel /\ IdleCmdRecord
    /\ IdleSerde

\* frame.hydrate(&register, hide)
Hydrate ==
    /\ hy_pc = "start"
    /\ LET Done(h) == /\ hy_frame' = h.frame
                       /\ hy_out' = h.res
                       /\ hy_err' = h.err
       IN  Done(hydrate(hy_frame, reg, hy_hide))
    /\ hy_pc' = "done"
    /\ UNCHANGED <<hy_frame0, hy_hide>>
    /\ UNCHANGED <<reg, readVars, writeVars, regVars, valVars, procVars, recVars,
                 reelVars, cmdVars, serdeVars>>

NextHydrate == Hydrate

SpecHydrate == InitHydrate /\ [][NextHydrate]_vars

\* the strings of a JSON value: its string leaf and its keys
StringsOf(val) ==
    CASE val.kind = "String" -> {val.str}
      [] val.kind = "Object" ->
            {val.str} \cup (IF IsString(val.val) THEN {val.val.str} ELSE {})
      [] OTHER -> {}

\* the hydratable strings of a frame
HydratableStrings(f) ==
    UNION {StringsOf(Field(f, HydrateOrder[i])) : i \in 1..Len(HydrateOrder)}

\* C4: when the register holds every name of `from` and `to` is empty,
\* hydrate terminates (it returns Ok or an error), and afterwards no
\* hydratable string of the frame contains `${NAME}` for a NAME of `from`.
C4_HydrateLeavesNoFromReference ==
    ( /\ hy_pc = "done"
      /\ ~hy_hide
      /\ DOMAIN hy_frame0.cut.writes = {}
      /\ hy_frame0.cut.reads \subseteq DOMAIN reg )
    => /\ hy_out \in {"Ok", "Err"}
       /\ \A t \in HydratableStrings(hy_frame) :
            \A name \in hy_frame0.cut.reads : ~contains(t, Decl(name))

\* the names of hidden variables: a leading underscore
IsHiddenName(name) == name # <<>> /\ name[1] = "_"

\* C13: when hide is true and hydrate returns Ok, no hydratable string of
\* the hydrated frame contains the register's string value of a variable
\* whose name starts with an underscore, also in strings that reference
\* several variables.
C13_HiddenValuesNeverShown ==
    (hy_pc = "done" /\ hy_hide /\ hy_out = "Ok")
    => \A name \in DOMAIN reg :
          (IsHiddenName(name) /\ IsString(reg[name]))
          => \A t \in HydratableStrings(hy_frame) : ~contains(t, reg[name].str)

\* the string of a request body that hydrate_val hands to hydrate_str
HasHydratedNode(val) ==
    IsString(val) \/ (val.kind = "Object" /\ IsString(val.val))

HydratedNode(val) == IF IsString(val) THEN val.str ELSE val.val.str

\* a name the InstructionSet does not declare: in neither `from` nor `to`
Undeclared(set, name) == name \notin set.reads /\ name \notin DOMAIN set.writes

\* hydrate_str gets to the reference ms[i]: the expressions of the string
\* are well formed and no match visited before it can fail, each being an
\* escape, an undeclared name, or a name with a string value that is not
\* to be hidden
ReferenceIsChecked(set, r, hide, s, name) ==
    LET rm == read_match(r, s)
    IN  /\ rm.ok
        /\ \E i \in 1..Len(rm.matches) :
              /\ rm.matches[i].kind = "Variable"
              /\ rm.matches[i].name = name
              /\ \A j \in 1..(i - 1) :
                    \/ rm.matches[j].kind = "Escape"
                    \/ Undeclared(set, rm.matches[j].name)
                    \/ /\ IsString(rm.matches[j].value)
                       /\ ~(hide /\ IsHiddenName(rm.matches[j].name))

Substituted(set, name) ==
    \/ name \in set.reads
    \/ name \in DOMAIN set.writes /\ set.hydrate_writes

\* what goes in the place of a reference to name
Shown(r, name, hide) ==
    IF hide /\ IsHiddenName(name) THEN Str(HIDDEN) ELSE r[name]

\* the string s from offset p on, read from left to right: every `${NAME}`
\* with NAME in the register and substituted under the set is replaced by
\* its value, every other expression is copied: [ok, str]; ok is FALSE when
\* a value to splice in is no string
RECURSIVE HydratedText(_, _, _, _, _)
HydratedText(set, r, s, p, hide) ==
    IF p >= Len(s) THEN [ok |-> TRUE, str |-> <<>>]
    ELSE
    LET lead(b)  == OccursAt(s, <<"$", "{">>, b) /\ NameEnd(s, b + 2) > b + 2
        ne(b)    == NameEnd(s, b + 2)
        closed(b) == ne(b) < Len(s) /\ s[ne(b) + 1] = "}"
        stop(b)  == IF closed(b) THEN ne(b) + 1 ELSE ne(b)
        name(b)  == Slice(s, b + 2, ne(b))
        then(text, q) ==
            LET rest == HydratedText(set, r, s, q, hide)
            IN  [ok |-> rest.ok, str |-> text \o rest.str]
    IN  IF s[p + 1] = "\\" /\ lead(p + 1)
        THEN then(Slice(s, p, stop(p + 1)), stop(p + 1))
        ELSE IF /\ lead(p) /\ closed(p)
                /\ name(p) \in DOMAIN r
                /\ Substituted(set, name(p))
        THEN LET v == Shown(r, name(p), hide)
             IN  IF IsString(v) THEN then(v.str, stop(p))
                 ELSE [ok |-> FALSE, str |-> <<>>]
        ELSE IF lead(p)
        THEN then(Slice(s, p, stop(p)), stop(p))
        ELSE then(<<s[p + 1]>>, p + 1)

\* a string that is one substituted reference and nothing else takes the
\* value as it is: [ok, value]
HydrateExpected(set, r, s, hide) ==
    IF \E n \in DOMAIN r : s = Decl(n) /\ Substituted(set, n)
    THEN [ok |-> TRUE,
          value |-> Shown(r, CHOOSE n \in DOMAIN r : s = Decl(n), hide)]
    ELSE LET w == HydratedText(set, r, s, 0, hide)
         IN  [ok |-> w.ok, value |-> Str(w.str)]

\* a value with the backslashes of its string taken out
NoBackslash(val) ==
    IF IsString(val)
    THEN Str(SelectSeq(val.str, LAMBDA c : c # "\\"))
    ELSE val

\* the hydrated string is the expected one, whatever became of backslashes
StringHydratedAs(set, r, before, after, hide) ==
    LET e == HydrateExpected(set, r, before.str, hide)
    IN  e.ok /\ NoBackslash(after) = NoBackslash(e.value)

\* a field of the frame was hydrated as expected
FieldHydratedAs(set, r, before, after, hide) ==
    CASE IsString(before) -> StringHydratedAs(set, r, before, after, hide)
      [] before.kind = "Object" /\ IsString(before.val) ->
            /\ after.kind = "Object"
            /\ after.str = before.str
            /\ StringHydratedAs(set, r, before.val, after.val, hide)
      [] OTHER -> after = before

\* C27: when hydrate returns Ok with hydrate_writes = false, every `${VAR}`
\* with VAR a key of `to` is left intact, also when the register holds VAR,
\* while the `from` references of the same string are substituted; with
\* hydrate_writes = true the `to` references are substituted from the
\* register as well.
C27_ToReferencesWaitForTheWrite ==
    (hy_pc = "done" /\ hy_out = "Ok") =>
        \A i \in 1..Len(HydrateOrder) :
            FieldHydratedAs(hy_frame0.cut, reg,
                            Field(hy_frame0, HydrateOrder[i]),
                            Field(hy_frame, HydrateOrder[i]), hy_hide)


-----------------------------------------------------------------------------
(* select_value, Response::match_payload_response and process_response     *)

SelEtcKey == "'response'.'k'"

\* select_value on {"response": to_value(response)}: [ok, value]; etc is
\* flattened into the response object
select_value(response, query) ==
    LET missing == [ok |-> FALSE, value |-> NoValue]
    IN  CASE query = SelBody ->
                IF response.body = NoValue THEN missing
                ELSE [ok |-> TRUE, value |-> response.body]
          [] query = SelBodyKey ->
                IF response.body.kind = "Object" /\ response.body.str = KeyK
                THEN [ok |-> TRUE, value |-> response.body.val]
                ELSE missing
          [] query = SelEtcKey ->
                IF response.etc.kind = "Object" /\ response.etc.str = KeyK
                THEN [ok |-> TRUE, value |-> response.etc.val]
                ELSE missing
          [] OTHER -> missing

\* the orders in which a HashMap with these keys may be iterated
Orders(keys) ==
    {q \in SeqsUpTo(keys, Cardinality(keys)) :
        Len(q) = Cardinality(keys) /\ {q[i] : i \in 1..Len(q)} = keys}

\* the loop of match_payload_response over set.writes: [res, matches]
RECURSIVE MatchPayloadLoop(_, _, _, _, _)
MatchPayloadLoop(frame_response, set, pay, order, write_matches) ==
    IF order = <<>> THEN [res |-> "Ok", matches |-> write_matches]
    ELSE LET k     == Head(order)
             fail  == [res |-> "Err", matches |-> write_matches]
             Rest(res, ms) ==
                 IF res = "Ok"
                 THEN MatchPayloadLoop(frame_response, set, pay, Tail(order), ms)
                 ELSE [res |-> res, matches |-> write_matches]
             Written(wm) ==
                 Rest(wm.res, IF wm.res = "Ok" /\ wm.some
                              THEN insert(write_matches, k, Str(wm.str))
                              ELSE write_matches)
             Selected(fsel, psel) ==
                 IF ~fsel.ok \/ ~IsString(fsel.value) THEN fail
                 ELSE IF ~psel.ok THEN fail
                 ELSE IF IsString(psel.value)
                 THEN Written(write_match(k, fsel.value.str, psel.value.str))
                 ELSE Rest(IF expect_standalone_var(k, fsel.value.str)
                           THEN "Ok" ELSE "Err",
                           insert(write_matches, k, psel.value))
         IN  Selected(select_value(frame_response, set.writes[k]),
                      select_value(pay, set.writes[k]))

match_payload_response(frame_response, set, pay, order) ==
    MatchPayloadLoop(frame_response, set, pay, order, EmptyRegister)

\* for (k, v) in matches { cut_register.write_operation(k, v)?; }
RECURSIVE WriteAll(_, _, _)
WriteAll(r, ms, order) ==
    IF order = <<>> THEN [ok |-> TRUE, reg |-> r]
    ELSE LET w == write_operation(r, Head(order), ms[Head(order)])
         IN  IF w.ok THEN WriteAll(w.reg, ms, Tail(order))
             ELSE [ok |-> FALSE, reg |-> r]

\* the write step and the re-hydration of the response: [res, frame, reg]
WriteAndRehydrate(f, r, ms, write_order) ==
    LET g == [f EXCEPT !.cut.hydrate_writes = TRUE]
        Etc(w, gb, etc) ==
            [res |-> etc.res, frame |-> [gb EXCEPT !.response.etc = etc.value],
             reg |-> w.reg]
        Body(w, gb, res) ==
            IF res # "Ok" THEN [res |-> res, frame |-> gb, reg |-> w.reg]
            ELSE Etc(w, gb, hydrate_val(g.cut, gb.response.etc, w.reg, FALSE))
        Hydrated(w, body) ==
            Body(w, [g EXCEPT !.response.body = body.value], body.res)
        Written(w) ==
            IF ~w.ok THEN [res |-> "Err", frame |-> f, reg |-> w.reg]
            ELSE Hydrated(w, IF g.response.body = NoValue
                             THEN [res |-> "Ok", value |-> NoValue]
                             ELSE hydrate_val(g.cut, g.response.body, w.reg, FALSE))
    IN  Written(WriteAll(r, ms, write_order))

\* process_response(params, frame, cut_register, payload_response, output):
\* [res, frame, reg, wrote, matched, stage]; stage is where the call ended:
\* "match" | "write" | "compare" | "output" | "ok"
process_response(f, r, pay, output, match_order, write_order) ==
    LET Compared(wr, m) ==
            IF wr.res # "Ok"
            THEN [res |-> wr.res, frame |-> wr.frame, reg |-> wr.reg,
                  wrote |-> DOMAIN m.matches, matched |-> m,
                  stage |-> "write"]
            ELSE IF wr.frame.response # pay
            THEN [res |-> "Err", frame |-> wr.frame, reg |-> wr.reg,
                  wrote |-> DOMAIN m.matches, matched |-> m,
                  stage |-> "compare"]
            ELSE [res   |-> IF output = "Fail" THEN "Err" ELSE "Ok",
                  frame |-> wr.frame,
                  reg   |-> flush_ignored(wr.reg),
                  wrote |-> DOMAIN m.matches,
                  matched |-> m,
                  stage |-> IF output = "Fail" THEN "output" ELSE "ok"]
        Matched(m) ==
            IF m.res # "Ok"
            THEN [res |-> m.res, frame |-> f, reg |-> r, wrote |-> {},
                  matched |-> [res |-> m.res, matches |-> EmptyRegister],
                  stage |-> "match"]
            ELSE Compared(IF DOMAIN m.matches # {}
                          THEN WriteAndRehydrate(f, r, m.matches,
                                   SelectSeq(write_order,
                                             LAMBDA k : k \in DOMAIN m.matches))
                          ELSE [res |-> "Ok", frame |-> f, reg |-> r],
                          m)
    IN  Matched(match_payload_response(f.response, f.cut, pay, match_order))


-----------------------------------------------------------------------------
(* SpecProcess: process_response on bounded frames, payloads and registers *)

MaxBodyPieces == 2
MaxPayloadChars == 2

BodyPieces == { <<"a">>, <<"|">>, <<"\\">>, Decl(NameV), Decl(NameA1) }
FrameBodyStrings == Concats(BodyPieces, MaxBodyPieces)
PayloadBodyStrings == Concats({ <<"a">>, <<"|">> }, MaxPayloadChars)

\* how the two responses are laid out around the body strings bf and bp
ProcessShapes(bf, bp) ==
    { [frame   |-> Response(Str(bf), EmptyObj, 200),
       payload |-> Response(Str(bp), EmptyObj, 200)],
      [frame   |-> Response(Obj(KeyK, Str(bf)), EmptyObj, 200),
       payload |-> Response(Obj(KeyK, Str(bp)), EmptyObj, 200)],
      [frame   |-> Response(Str(bf), Obj(KeyK, Str(Decl(NameT))), 200),
       payload |-> Response(Str(bp), Obj(KeyK, Str(<<"a">>)), 200)],
      [frame   |-> Response(Str(bf), EmptyObj, 200),
       payload |-> Response(Str(bp), EmptyObj, 500)],
      [frame   |-> Response(Str(bf), EmptyObj, 200),
       payload |-> Response(Other(1), EmptyObj, 200)],
      [frame   |-> Response(Str(bf), EmptyObj, 200),
       payload |-> Response(NoValue, EmptyObj, 200)] }

\* a JSON object whose keys are `keys`, each with the value true
Fields(keys) == [kind |-> "Fields", str |-> <<>>, id |-> 0, keys |-> keys]

\* "validation": {"'response'.'body'": {"partial": true}}, a member of the
\* response document; frame::Response has no such member and keeps the key
\* in the flattened etc
ValidationPartialBody ==
    Obj(<<"validation">>, Obj(<<SelBody>>, Obj(<<"partial">>, Other(1))))

\* frames with a partial rule on an object body, and payloads for them
ValidationShapes ==
    { [frame   |-> Response(Fields({"A", "B", "C"}), ValidationPartialBody, 200),
       payload |-> Response(Fields({"A", "B", "C", "D"}), EmptyObj, 200)],
      [frame   |-> Response(Fields({"A", "B", "C"}), ValidationPartialBody, 200),
       payload |-> Response(Fields({"A", "B", "C"}), EmptyObj, 200)],
      [frame   |-> Response(Fields({"A", "B", "C"}), ValidationPartialBody, 200),
       payload |-> Response(Fields({"A", "B"}), EmptyObj, 200)],
      [frame   |-> Response(Fields({"A", "B", "C"}), EmptyObj, 200),
       payload |-> Response(Fields({"A", "B", "C", "D"}), EmptyObj, 200)] }

ProcessCuts ==
    { InstructionSet({}, EmptyRegister, FALSE),
      InstructionSet({}, NameV :> SelBody, FALSE),
      InstructionSet({}, NameV :> SelBodyKey, FALSE),
      InstructionSet({}, (NameV :> SelBody) @@ (NameT :> SelEtcKey), FALSE),
      InstructionSet({}, NameA1 :> SelBody, FALSE) }

ProcessRegisters ==
    { EmptyRegister,
      (NameV :> Str(<<"o">>)) @@ (NameT :> Str(<<"x">>)) }

EmptyRequest == Request(Other(1), NoValue, NoValue, EmptyObj, Str(<<"x">>))

InitProcess ==
    /\ pr_pc = "start"
    /\ reg \in ProcessRegisters
    /\ pr_reg0 = reg
    /\ \E cut \in ProcessCuts :
          LET Given(shape) ==
                  /\ pr_frame0 = Frame(cut, EmptyRequest, shape.frame)
                  /\ payload_response = shape.payload
          IN  \/ \E shape \in ValidationShapes : Given(shape)
              \/ \E bf \in FrameBodyStrings, bp \in PayloadBodyStrings :
                    \E shape \in ProcessShapes(bf, bp) : Given(shape)
    /\ pr_frame = pr_frame0
    /\ pr_output \in {"None", "Ok", "Fail"}
    /\ pr_out = <<>>
    /\ pr_matched = <<>>
    /\ IdleRead /\ IdleWrite /\ IdleRegister /\ IdleValidation /\ IdleHydrate
    /\ IdleRecord /\ IdleReel /\ IdleCmdRecord
    /\ IdleSerde

\* process_response(params, &mut frame, &mut register, payload, output)
ProcessResponse ==
    /\ pr_pc = "start"
    /\ \E match_order \in Orders(DOMAIN pr_frame.cut.writes),
          write_order \in Orders(DOMAIN pr_frame.cut.writes) :
          LET Done(p) == /\ pr_frame' = p.frame
                         /\ reg' = p.reg
                         /\ pr_out' = p.res
                         /\ pr_matched' = p.matched
          IN  Done(process_response(pr_frame, reg, payload_response,
                                    pr_output, match_order, write_order))
    /\ pr_pc' = "done"
    /\ UNCHANGED <<pr_frame0, pr_reg0, payload_response, pr_output>>
    /\ UNCHANGED <<readVars, writeVars, regVars, valVars, hydVars, recVars,
                 reelVars, cmdVars, serdeVars>>

NextProcess == ProcessResponse

SpecProcess == InitProcess /\ [][NextProcess]_vars

\* the expected string t is P ++ "${var}" ++ S and the payload string u is
\* P ++ val ++ S
Replaced(t, var, u, val) ==
    \E k \in 0..Len(t) :
        /\ OccursAt(t, Decl(var), k)
        /\ u = Slice(t, 0, k) \o val
                 \o Slice(t, k + Len(Decl(var)), Len(t))

\* C6: when the frame writes one variable from a string response body and
\* the payload response is the expected response with that `${var}` replaced
\* by a value, process_response succeeds, the register holds the value for
\* the variable and the re-hydrated frame response equals the payload.
C6_WriteThenRehydrateEqualsPayload ==
    \A val \in PayloadBodyStrings :
        ( /\ pr_pc = "done"
          /\ pr_output # "Fail"
          /\ pr_frame0.cut.writes = (NameV :> SelBody)
          /\ IsString(pr_frame0.response.body)
          /\ IsString(payload_response.body)
          /\ payload_response.etc = pr_frame0.response.etc
          /\ payload_response.status = pr_frame0.response.status
          /\ Replaced(pr_frame0.response.body.str, NameV,
                      payload_response.body.str, val) )
        => /\ pr_out = "Ok"
           /\ get(reg, NameV) = Str(val)
           /\ pr_frame.response = payload_response

\* what the selector of the write instruction k selects on the frame side
\* and on the payload side
FrameSide(k) == select_value(pr_frame0.response, pr_frame0.cut.writes[k])
PayloadSide(k) == select_value(payload_response, pr_frame0.cut.writes[k])

\* the pair (k, selector) ends match_payload_response with an error
PairFails(k) ==
    \/ ~FrameSide(k).ok
    \/ ~IsString(FrameSide(k).value)
    \/ ~PayloadSide(k).ok
    \/ /\ IsString(PayloadSide(k).value)
       /\ write_match(k, FrameSide(k).value.str,
                      PayloadSide(k).value.str).res = "Err"
    \/ /\ ~IsString(PayloadSide(k).value)
       /\ FrameSide(k).value.str # Decl(k)

\* write_match does not return for the pair
PairPanics(k) ==
    /\ FrameSide(k).ok /\ IsString(FrameSide(k).value)
    /\ PayloadSide(k).ok /\ IsString(PayloadSide(k).value)
    /\ write_match(k, FrameSide(k).value.str,
                   PayloadSide(k).value.str).res = "Panic"

\* the pair yields an entry: write_match captured, or the payload value is
\* no string
PairCaptures(k) ==
    IsString(PayloadSide(k).value)
        => write_match(k, FrameSide(k).value.str, PayloadSide(k).value.str).some

PairValue(k) ==
    IF IsString(PayloadSide(k).value)
    THEN Str(write_match(k, FrameSide(k).value.str,
                         PayloadSide(k).value.str).str)
    ELSE PayloadSide(k).value

\* C16: match_payload_response returns an error when for some write
\* instruction the frame-side value is no string, a selector selects
\* nothing, write_match fails or a non-string payload value meets a frame
\* string other than `${var}`; otherwise it returns, for every instruction,
\* the string write_match captured or the non-string payload value as it
\* is, and no entry where nothing was captured (None when there is no entry
\* at all).
C16_MatchPayloadResponseReturnsCaptures ==
    pr_pc = "done" =>
        LET writes == DOMAIN pr_frame0.cut.writes
        IN  /\ ( /\ \E k \in writes : PairFails(k)
                 /\ \A k \in writes : ~PairPanics(k) )
               => pr_matched.res = "Err"
            /\ (\A k \in writes : ~PairFails(k) /\ ~PairPanics(k))
               => /\ pr_matched.res = "Ok"
                  /\ DOMAIN pr_matched.matches
                        = {k \in writes : PairCaptures(k)}
                  /\ \A k \in DOMAIN pr_matched.matches :
                        pr_matched.matches[k] = PairValue(k)

\* C16 witness: the payload body is the number 1 and the frame body is
\* exactly `${V}`: the number is returned for V
C16_RawValueReturned ==
    /\ pr_pc = "done"
    /\ pr_frame0.cut.writes = (NameV :> SelBody)
    /\ pr_frame0.response.body = Str(Decl(NameV))
    /\ payload_response.body = Other(1)
    /\ pr_matched = [res |-> "Ok", matches |-> (NameV :> Other(1))]

\* the frame declares the partial rule on its object body, nothing is
\* written, and the payload differs from the expected response only by keys
\* of the body that the frame does not have
PartialRuleTolerates(f, pay) ==
    /\ f.response.etc = ValidationPartialBody
    /\ f.cut.writes = EmptyRegister
    /\ f.response.body.kind = "Fields" /\ pay.body.kind = "Fields"
    /\ f.response.body.keys \subseteq pay.body.keys
    /\ pay.etc = EmptyObj
    /\ pay.status = f.response.status

\* C25: process_response applies the frame's validation rules to the payload
\* before the equality comparison: a payload that differs from the expected
\* response only in a way a declared rule tolerates passes the take (frame
\* body {A,B,C} with partial on 'response'.'body' against {A,B,C,D}).
C25_ToleratedPayloadPasses ==
    ( /\ pr_pc = "done"
      /\ PartialRuleTolerates(pr_frame0, payload_response)
      /\ pr_output # "Fail" )
    => pr_out = "Ok"


-----------------------------------------------------------------------------
(* SpecRecord: run_record over a reel, run_take for each of its frames     *)

\* {"attempts": {"times": times, "ms": ms}} in request.etc
AttemptsObj(times, ms) ==
    [kind |-> "Attempts", str |-> <<>>, id |-> 0, times |-> times, ms |-> ms]
\* {"attempts": "x"}: no Attempts can be deserialized from it
BadAttemptsObj == Obj(<<"attempts">>, Str(<<"x">>))

NoAttempts == [some |-> FALSE, times |-> 0, ms |-> 0]
SomeAttempts(times, ms) == [some |-> TRUE, times |-> times, ms |-> ms]

\* the attempts of BaseParams::init: [ok, attempts]
ParseAttempts(etc) ==
    CASE etc.kind = "Attempts" ->
            [ok |-> TRUE, attempts |-> SomeAttempts(etc.times, etc.ms)]
      [] etc = BadAttemptsObj -> [ok |-> FALSE, attempts |-> NoAttempts]
      [] OTHER -> [ok |-> TRUE, attempts |-> NoAttempts]

\* a retry loop that also runs for n = times
in_retry_loop_inclusive(k, times) == k <= times

\* for n in 1..attempts.times: the loop body runs while n < times
in_retry_loop(k, times) == k < times

\* ToStringHidden::to_string_hidden on a register
to_string_hidden(r) ==
    [k \in DOMAIN r |-> IF k # <<>> /\ k[1] = "_" THEN Str(HIDDEN) ELSE r[k]]

MaxTimes == 2
MaxFrames == 2
SleepMs == 7

\* writes V from the body and t from etc; maybe with a retry policy
FrameWrite(etc) ==
    Frame(InstructionSet({}, (NameV :> SelBody) @@ (NameT :> SelEtcKey), FALSE),
          Request(Str(<<"x">>), NoValue, NoValue, etc, Str(<<"x">>)),
          Response(Str(Decl(NameV)), Obj(KeyK, Str(Decl(NameT))), 200))

\* reads V and t into its request
FrameRead(etc) ==
    Frame(InstructionSet({NameV, NameT}, EmptyRegister, FALSE),
          Request(Str(Decl(NameV) \o <<"|">> \o Decl(NameT)), NoValue, NoValue,
                  etc, Str(<<"x">>)),
          Response(Str(<<"a">>), EmptyObj, 200))

\* a uri with a brace that is not closed: hydration fails
FrameBadUri ==
    Frame(InstructionSet({NameV}, EmptyRegister, FALSE),
          Request(Str(<<"x">>), NoValue, NoValue, EmptyObj,
                  Str(<<"$", "{", "V">>)),
          Response(Str(<<"a">>), EmptyObj, 200))

FrameLibrary ==
    {FrameWrite(EmptyObj), FrameRead(EmptyObj), FrameRead(BadAttemptsObj),
     FrameBadUri}
        \cup {FrameWrite(AttemptsObj(t, SleepMs)) : t \in 0..MaxTimes}

Reels == SeqsUpTo(FrameLibrary, MaxFrames)

\* what the service may answer
Payloads ==
    { Response(Str(<<"a">>), Obj(KeyK, Str(<<"b">>)), 200),
      Response(Str(<<"a">>), Obj(KeyK, Str(<<"b">>)), 500),
      Response(Str(<<"a">>), EmptyObj, 200) }

\* Result<Response, Error> of run_request
Answers ==
    {[ok |-> TRUE, response |-> pay] : pay \in Payloads}
        \cup {[ok |-> FALSE, response |-> Response(NoValue, NoValue, 0)]}

RecordRegisters ==
    { (NameT :> Str(<<"x">>)) @@ (NameA :> Str(<<"1">>))
          @@ (<<"_", "P">> :> Str(<<"s">>)) }

\* --cut-out, --verbose and --take-out: each given and not given, in pairs
BaseParams ==
    { [cut_out |-> "None", verbose |-> FALSE, take_out |-> "None"],
      [cut_out |-> "None", verbose |-> TRUE,  take_out |-> "Set"],
      [cut_out |-> "Set",  verbose |-> FALSE, take_out |-> "Set"],
      [cut_out |-> "Set",  verbose |-> TRUE,  take_out |-> "None"] }

Event(ev, k, wrote) ==
    [ev |-> ev, idx |-> frame_idx, n |-> k,
     times |-> IF attempts.some THEN attempts.times ELSE -1,
     ms |-> IF attempts.some THEN attempts.ms ELSE 0,
     wrote |-> wrote]

\* an event of no take
Event0(ev) ==
    [ev |-> ev, idx |-> frame_idx, n |-> 0, times |-> -1, ms |-> 0,
     wrote |-> {}]

Ok == [ok |-> TRUE, from |-> "", idx |-> 0]
Err(from, i) == [ok |-> FALSE, from |-> from, idx |-> i]
Panicked == [ok |-> FALSE, from |-> "panic", idx |-> 0]

InitRecord ==
    /\ rc_pc = "next"
    /\ frames \in Reels
    /\ frame_idx = 1
    /\ payload_frame = <<>>
    /\ reg \in RecordRegisters
    /\ \E base_params \in BaseParams :
         /\ cut_out = base_params.cut_out
         /\ verbose = base_params.verbose
         /\ take_out = base_params.take_out
    /\ cut_file = <<>>
    /\ attempts = NoAttempts
    /\ attempt_n = 0
    /\ sent = 0
    /\ take_response = <<>>
    /\ take_err = ""
    /\ record_result = <<>>
    /\ rc_log = <<>>
    /\ take_reg0 = <<>>
    /\ take_stage = ""
    /\ take_matches = <<>>
    /\ attempt_start = <<>>
    /\ IdleRead /\ IdleWrite /\ IdleRegister /\ IdleValidation /\ IdleHydrate
    /\ IdleProcess /\ IdleReel /\ IdleCmdRecord
    /\ IdleSerde


\* the take under way failed at `from`: run_take returns its error
TakeFails(from) ==
    /\ take_err' = from
    /\ rc_pc' = "abort"
    /\ rc_log' = Append(rc_log, Event("take_err", sent, {}))

\* a panic unwinds through run_take and run_record
Panics ==
    /\ take_err' = "panic"
    /\ rc_pc' = "done"
    /\ record_result' = Panicked
    /\ rc_log' = Append(rc_log, Event("panic", sent, {}))

\* let frame = Frame::try_from(meta_frame.path)?  -- the file is read
RecLoadFrame ==
    /\ rc_pc = "next"
    /\ frame_idx <= Len(frames)
    /\ payload_frame' = frames[frame_idx]
    /\ attempts' = NoAttempts
    /\ attempt_n' = 0
    /\ sent' = 0
    /\ rc_pc' = "hydrate"
    /\ rc_log' = Append(rc_log, Event0("load"))
    /\ take_reg0' = reg
    /\ take_stage' = ""
    /\ take_matches' = <<>>
    /\ attempt_start' = <<>>
    /\ UNCHANGED <<reg, frames, frame_idx, cut_out, cut_file, verbose, take_out,
                   take_response, take_err, record_result>>
    /\ UNCHANGED <<readVars, writeVars, regVars, valVars, hydVars, procVars,
                 reelVars, cmdVars, serdeVars>>

\* let frame = Frame::try_from(meta_frame.path)?  -- it fails and `?` returns
RecLoadFails ==
    /\ rc_pc = "next"
    /\ frame_idx <= Len(frames)
    /\ record_result' = Err("load", frame_idx)
    /\ rc_pc' = "done"
    /\ rc_log' = Append(rc_log, Event0("load_err"))
    /\ UNCHANGED <<take_reg0, take_stage, take_matches, attempt_start>>
    /\ UNCHANGED <<reg, frames, frame_idx, payload_frame, cut_out, cut_file,
                   verbose, take_out, attempts, attempt_n, sent, take_response,
                   take_err>>
    /\ UNCHANGED <<readVars, writeVars, regVars, valVars, hydVars, procVars,
                 reelVars, cmdVars, serdeVars>>

\* run_take: the hidden copy when verbose, then frame.hydrate(&register, false)
RecHydrate ==
    /\ rc_pc = "hydrate"
    /\ LET Plain(h) ==
               /\ payload_frame' = h.frame
               /\ CASE h.res = "Ok" ->
                         /\ rc_pc' = "init"
                         /\ rc_log' = Append(rc_log, Event("hydrate", 0, {}))
                         /\ UNCHANGED <<take_err, record_result>>
                    [] h.res = "Err" ->
                         TakeFails("hydrate") /\ UNCHANGED record_result
                    [] OTHER -> Panics
           Hidden(hidden) ==
               IF hidden # "Ok"
               THEN /\ UNCHANGED <<payload_frame>>
                    /\ IF hidden = "Panic"
                       THEN Panics
                       ELSE TakeFails("hydrate") /\ UNCHANGED record_result
               ELSE Plain(hydrate(payload_frame, reg, FALSE))
       IN  Hidden(IF verbose THEN hydrate(payload_frame, reg, TRUE).res
                  ELSE "Ok")
    /\ UNCHANGED <<take_reg0, take_stage, take_matches, attempt_start>>
    /\ UNCHANGED <<reg, frames, frame_idx, cut_out, cut_file, verbose, take_out,
                   attempts, attempt_n, sent, take_response>>
    /\ UNCHANGED <<readVars, writeVars, regVars, valVars, hydVars, procVars,
                 reelVars, cmdVars, serdeVars>>

\* let params = base_params.init(frame.get_request())?  (an address is given)
RecInitParams ==
    /\ rc_pc = "init"
    /\ LET a == ParseAttempts(payload_frame.request.etc)
       IN  IF a.ok
           THEN /\ attempts' = a.attempts
                /\ attempt_n' = 1
                /\ rc_pc' = "request"
                /\ rc_log' = rc_log
                /\ UNCHANGED take_err
           ELSE /\ TakeFails("init")
                /\ UNCHANGED <<attempts, attempt_n>>
    /\ UNCHANGED <<take_reg0, take_stage, take_matches, attempt_start>>
    /\ UNCHANGED <<reg, frames, frame_idx, payload_frame, cut_out, cut_file,
                   verbose, take_out, sent, take_response, record_result>>
    /\ UNCHANGED <<readVars, writeVars, regVars, valVars, hydVars, procVars,
                 reelVars, cmdVars, serdeVars>>

\* the attempt under way is one of the retry loop, not the final one
InLoop == attempts.some /\ in_retry_loop(attempt_n, attempts.times)

\* run_request(&params, frame): the transport fails or a Response comes back
RecRunRequest ==
    /\ rc_pc = "request"
    /\ sent' = sent + 1
    /\ \E answer \in Answers :
         IF ~answer.ok
         THEN /\ UNCHANGED take_response
              /\ IF InLoop
                 THEN /\ rc_pc' = "sleep"
                      /\ rc_log' = rc_log
                             \o << Event("send", sent', {}),
                                   Event("attempt_err", sent', {}) >>
                      /\ UNCHANGED take_err
                 ELSE /\ take_err' = "transport"
                      /\ rc_pc' = "abort"
                      /\ rc_log' = rc_log
                             \o << Event("send", sent', {}),
                                   Event("take_err", sent', {}) >>
         ELSE /\ take_response' = answer.response
              /\ rc_pc' = "process"
              /\ rc_log' = Append(rc_log, Event("send", sent', {}))
              /\ UNCHANGED take_err
    /\ attempt_start' = [frame |-> payload_frame, reg |-> reg]
    /\ UNCHANGED <<take_reg0, take_stage, take_matches>>
    /\ UNCHANGED <<reg, frames, frame_idx, payload_frame, cut_out, cut_file,
                   verbose, take_out, attempts, attempt_n, record_result>>
    /\ UNCHANGED <<readVars, writeVars, regVars, valVars, hydVars, procVars,
                 reelVars, cmdVars, serdeVars>>


\* process_response(params, frame, register, response, output)
RecProcessResponse ==
    /\ rc_pc = "process"
    /\ \E match_order \in Orders(DOMAIN payload_frame.cut.writes),
          write_order \in Orders(DOMAIN payload_frame.cut.writes),
          output \in IF take_out = "Set" THEN {"Ok", "Fail"} ELSE {"None"} :
         LET Done(p) ==
                 /\ payload_frame' = p.frame
                 /\ reg' = p.reg
                 /\ take_stage' = p.stage
                 /\ take_matches' = p.matched
                 /\ CASE p.res = "Ok" ->
                           /\ frame_idx' = frame_idx + 1
                           /\ rc_pc' = "next"
                           /\ rc_log' = Append(rc_log,
                                            Event("take_ok", sent, p.wrote))
                           /\ UNCHANGED <<take_err, record_result>>
                      [] p.res = "Err" ->
                           /\ UNCHANGED <<frame_idx, record_result>>
                           /\ IF InLoop
                              THEN /\ rc_pc' = "sleep"
                                   /\ rc_log' = Append(rc_log,
                                                    Event("attempt_err", sent, {}))
                                   /\ UNCHANGED take_err
                              ELSE TakeFails("process")
                      [] OTHER -> Panics /\ UNCHANGED frame_idx
         IN  Done(process_response(payload_frame, reg, take_response, output,
                                   match_order, write_order))
    /\ UNCHANGED <<take_reg0, attempt_start>>
    /\ UNCHANGED <<frames, cut_out, cut_file, verbose, take_out, attempts,
                   attempt_n, sent, take_response>>
    /\ UNCHANGED <<readVars, writeVars, regVars, valVars, hydVars, procVars,
                 reelVars, cmdVars, serdeVars>>

\* thread::sleep(time::Duration::from_millis(attempts.ms)), then the next n
RecSleep ==
    /\ rc_pc = "sleep"
    /\ rc_log' = Append(rc_log, Event("sleep", sent, {}))
    /\ attempt_n' = attempt_n + 1
    /\ rc_pc' = "request"
    /\ UNCHANGED <<take_reg0, take_stage, take_matches, attempt_start>>
    /\ UNCHANGED <<reg, frames, frame_idx, payload_frame, cut_out, cut_file,
                   verbose, take_out, attempts, sent, take_response, take_err,
                   record_result>>
    /\ UNCHANGED <<readVars, writeVars, regVars, valVars, hydVars, procVars,
                 reelVars, cmdVars, serdeVars>>

\* write_cut(&cut_out, &register, reel_name, failed)?: TRUE when it is Ok
WriteCut(fs_ok) ==
    IF cut_out = "None" THEN cut_file' = cut_file
    ELSE IF fs_ok THEN cut_file' = <<to_string_hidden(reg)>>
    ELSE cut_file' = cut_file

\* run_take returned Err(e): write_cut(.., true)?; return Err(e)
RecAbort ==
    /\ rc_pc = "abort"
    /\ \E fs_ok \in IF cut_out = "Set" THEN BOOLEAN ELSE {TRUE} :
         /\ WriteCut(fs_ok)
         /\ record_result' = IF fs_ok THEN Err(take_err, frame_idx)
                             ELSE Err("write_cut", frame_idx)
    /\ rc_pc' = "done"
    /\ rc_log' = Append(rc_log, Event0("write_cut"))
    /\ UNCHANGED <<take_reg0, take_stage, take_matches, attempt_start>>
    /\ UNCHANGED <<reg, frames, frame_idx, payload_frame, cut_out, verbose,
                   take_out, attempts, attempt_n, sent, take_response,
                   take_err>>
    /\ UNCHANGED <<readVars, writeVars, regVars, valVars, hydVars, procVars,
                 reelVars, cmdVars, serdeVars>>

\* the for loop is over: write_cut(.., false)?; Ok(())
RecFinish ==
    /\ rc_pc = "next"
    /\ frame_idx > Len(frames)
    /\ \E fs_ok \in IF cut_out = "Set" THEN BOOLEAN ELSE {TRUE} :
         /\ WriteCut(fs_ok)
         /\ record_result' = IF fs_ok THEN Ok
                             ELSE Err("write_cut", frame_idx)
    /\ rc_pc' = "done"
    /\ rc_log' = Append(rc_log, Event0("write_cut"))
    /\ UNCHANGED <<take_reg0, take_stage, take_matches, attempt_start>>
    /\ UNCHANGED <<reg, frames, frame_idx, payload_frame, cut_out, verbose,
                   take_out, attempts, attempt_n, sent, take_response,
                   take_err>>
    /\ UNCHANGED <<readVars, writeVars, regVars, valVars, hydVars, procVars,
                 reelVars, cmdVars, serdeVars>>

NextRecord ==
    \/ RecLoadFrame \/ RecLoadFails \/ RecHydrate \/ RecInitParams
    \/ RecRunRequest \/ RecProcessResponse \/ RecSleep \/ RecAbort
    \/ RecFinish

SpecRecord == InitRecord /\ [][NextRecord]_vars

-----------------------------------------------------------------------------
(* Claims on run_record and run_take                                       *)

\* the entries of the log before entry i
Before(i) == 1..(i - 1)

\* the entries of the log after entry i
After(i) == (i + 1)..Len(rc_log)

\* C1: run_record takes the frames in list order, one take at a time: frame
\* i+1 is loaded only after the take of frame i returned success; after the
\* first failed take nothing more is loaded, hydrated or sent, and run_record
\* returns that take's error.
C1_SequentialTakesReturnTheTakeError ==
    /\ \A i \in 1..Len(rc_log) :
         /\ rc_log[i].ev = "load" =>
               rc_log[i].idx =
                   1 + Cardinality({j \in Before(i) : rc_log[j].ev = "take_ok"})
         /\ rc_log[i].ev \in {"load", "hydrate", "send"} =>
               \A j \in Before(i) : rc_log[j].ev # "take_err"
    /\ (rc_pc = "done" /\ take_err \notin {"", "panic"}) =>
           record_result = Err(take_err, frame_idx)

\* max(1, times)
AtLeastOne(times) == IF times > 1 THEN times ELSE 1

\* C2: with attempts {times, ms} declared, a take sends at most max(1, times)
\* requests; nothing is sent for a frame after its take returned success; an
\* attempt of the retry loop that fails is one of the first times-1, is not
\* returned and is followed by a sleep of ms; the error a take returns is
\* that of attempt max(1, times).
C2_AttemptsBoundTheSends ==
    \A i \in 1..Len(rc_log) :
        LET e == rc_log[i]
        IN  e.times >= 0 =>
              /\ e.ev = "send" => e.n <= AtLeastOne(e.times)
              /\ e.ev = "take_ok" =>
                    \A j \in After(i) :
                        ~(rc_log[j].ev = "send" /\ rc_log[j].idx = e.idx)
              /\ e.ev = "attempt_err" =>
                    /\ e.n < e.times
                    /\ IF i = Len(rc_log)
                       THEN rc_pc = "sleep" /\ take_err = ""
                       ELSE /\ rc_log[i + 1].ev = "sleep"
                            /\ rc_log[i + 1].ms = e.ms
                            /\ rc_log[i + 1].idx = e.idx
              /\ (e.ev = "take_err" /\ e.n >= 1) => e.n = AtLeastOne(e.times)

\* C2 witness: with times = 2 the first attempt failed, the take slept,
\* sent a second request and returned success
C2_RetriedOnceThenPassed ==
    \E i \in 1..Len(rc_log) :
        /\ i + 3 <= Len(rc_log)
        /\ rc_log[i].ev = "attempt_err" /\ rc_log[i].times = 2
        /\ rc_log[i + 1].ev = "sleep" /\ rc_log[i + 1].ms = SleepMs
        /\ rc_log[i + 2].ev = "send" /\ rc_log[i + 2].n = 2
        /\ rc_log[i + 3].ev = "take_ok"

\* no process_response has run since entry i of the log
RegisterUntouchedSince(i) ==
    \A j \in After(i) :
        \/ rc_log[j].ev \in {"load", "load_err", "hydrate", "send", "write_cut"}
        \/ (rc_log[j].ev = "take_err" /\ rc_log[j].n = 0)

\* C7: after a take that returned success the register has no key made only
\* of lowercase letters and underscores, for the next frame and at the end of
\* the reel; a variable that is not ignored and was written by a take that
\* returned success is in the register from then on.
C7_IgnoredKeysFlushedAfterSuccess ==
    \A i \in 1..Len(rc_log) :
        rc_log[i].ev = "take_ok" =>
            /\ RegisterUntouchedSince(i) =>
                  \A key \in DOMAIN reg : ~KEY_IGNORE(key)
            /\ \A key \in rc_log[i].wrote :
                  ~KEY_IGNORE(key) => key \in DOMAIN reg

\* C7 witness: a reel of two frames ended in success; the first take wrote
\* V and t; V is in the final register and t is not
C7_ReelKeptVAndDroppedT ==
    /\ rc_pc = "done"
    /\ record_result = Ok
    /\ Len(frames) = 2
    /\ \E i \in 1..Len(rc_log) :
         /\ rc_log[i].ev = "take_ok"
         /\ rc_log[i].idx = 1
         /\ rc_log[i].wrote = {NameV, NameT}
    /\ NameV \in DOMAIN reg
    /\ NameT \notin DOMAIN reg

\* C8: when a frame of a reel fails, whatever the failure, and cut_out is
\* set, run_record has written the current register to cut_out by the time
\* it returns the error (a failure of that write itself set aside).
C8_CutOutWrittenOnAnyFrameFailure ==
    ( /\ rc_pc = "done"
      /\ cut_out = "Set"
      /\ ~record_result.ok
      /\ record_result.from \notin {"write_cut", "panic"} ) =>
        cut_file = <<to_string_hidden(reg)>>

-----------------------------------------------------------------------------
(* Reel::new: MetaFrame::try_from, parse_sequence, the sort by path and    *)
(* Reel::validate                                                          *)

\* the characters of the file names in byte order
ByteOrder ==
    << ".", "0", "1", "2", "3", "4", "5", "6", "7", "8", "9", "_",
       "a", "b", "c", "d", "e", "f", "g", "h", "i", "j", "k", "l", "m",
       "n", "o", "p", "q", "r", "s", "t", "u", "v", "w", "x", "y", "z" >>

Byte(c) == CHOOSE i \in 1..Len(ByteOrder) : ByteOrder[i] = c

\* Ord::cmp of two paths of one directory: the file names compared by bytes
RECURSIVE PathLess(_, _)
PathLess(a, b) ==
    IF b = <<>> THEN FALSE
    ELSE IF a = <<>> THEN TRUE
    ELSE IF Head(a) # Head(b) THEN Byte(Head(a)) < Byte(Head(b))
    ELSE PathLess(Tail(a), Tail(b))

FrJson == <<".", "f", "r", ".", "j", "s", "o", "n">>

\* str::split('.')
RECURSIVE split_dot(_)
split_dot(s) ==
    IF \A i \in 1..Len(s) : s[i] # "." THEN <<s>>
    ELSE LET dot == CHOOSE i \in 1..Len(s) :
                        s[i] = "." /\ \A j \in 1..(i - 1) : s[j] # "."
         IN  <<SubSeq(s, 1, dot - 1)>> \o split_dot(SubSeq(s, dot + 1, Len(s)))

DigitValue(c) == Byte(c) - 2

\* the decimal a string of digits and points denotes: [ok, num, den], the
\* value being num / den; str::parse::<f32> takes digits with at most one
\* point and at least one digit
RECURSIVE Decimal(_, _, _, _)
Decimal(chars, num, den, seen_point) ==
    IF chars = <<>> THEN [ok |-> TRUE, num |-> num, den |-> den]
    ELSE IF Head(chars) = "."
    THEN IF seen_point THEN [ok |-> FALSE, num |-> 0, den |-> 1]
         ELSE Decimal(Tail(chars), num, den, TRUE)
    ELSE Decimal(Tail(chars), 10 * num + DigitValue(Head(chars)),
                 IF seen_point THEN 10 * den ELSE den, seen_point)

parse_f32(chars) ==
    IF \A i \in 1..Len(chars) : chars[i] = "."
    THEN [ok |-> FALSE, num |-> 0, den |-> 1]
    ELSE Decimal(chars, 0, 1, FALSE)

\* FrameType::from
FrameType(type_str) ==
    CASE type_str = <<"e">> -> "Error"
      [] type_str = <<"s">> -> "Success"
      [] type_str = <<"s", "e">> -> "PsError"
      [] OTHER -> "Invalid"

\* the loop of parse_sequence: [ok, seq_chars, type_str]
RECURSIVE SequenceChars(_, _, _)
SequenceChars(seq, seq_chars, type_str) ==
    IF seq = <<>>
    THEN [ok |-> TRUE, seq_chars |-> seq_chars, type_str |-> type_str]
    ELSE CASE Head(seq) \in Digit ->
                 SequenceChars(Tail(seq), Append(seq_chars, Head(seq)), type_str)
           [] Head(seq) \in Upper \cup Lower ->
                 SequenceChars(Tail(seq), seq_chars, Append(type_str, Head(seq)))
           [] Head(seq) = "_" ->
                 SequenceChars(Tail(seq), Append(seq_chars, "."), type_str)
           [] OTHER ->
                 [ok |-> FALSE, seq_chars |-> seq_chars, type_str |-> type_str]

\* parse_sequence(seq): [ok, step_f32, frame_type]
parse_sequence(seq) ==
    LET bad == [ok |-> FALSE, step_f32 |-> [num |-> 0, den |-> 1],
                frame_type |-> "Invalid"]
        Typed(number, type_str) ==
            IF ~number.ok \/ FrameType(type_str) = "Invalid" THEN bad
            ELSE [ok |-> TRUE,
                  step_f32 |-> [num |-> number.num, den |-> number.den],
                  frame_type |-> FrameType(type_str)]
        Parsed(chars) ==
            IF ~chars.ok THEN bad
            ELSE Typed(parse_f32(chars.seq_chars), chars.type_str)
    IN  Parsed(SequenceChars(seq, <<>>, <<>>))

\* MetaFrame::try_from(path): [ok, frame]
MetaFrame_try_from(path) ==
    LET bad == [ok |-> FALSE, frame |-> <<>>]
        Built(reel_parts, parsed) ==
            IF ~parsed.ok \/ Len(reel_parts) # 3 THEN bad
            ELSE [ok |-> TRUE,
                  frame |-> [path |-> path,
                             reel_name |-> reel_parts[1],
                             step |-> reel_parts[2],
                             name |-> reel_parts[3],
                             step_f32 |-> parsed.step_f32,
                             frame_type |-> parsed.frame_type]]
        Split(reel_parts) == Built(reel_parts, parse_sequence(reel_parts[2]))
    IN  Split(split_dot(trim_end_matches(path, FrJson)))

\* frame.step_f32.trunc() as u32
trunc(step_f32) == step_f32.num \div step_f32.den

NoRange == [some |-> FALSE, start |-> 0, end |-> 0]
SomeRange(start, end) == [some |-> TRUE, start |-> start, end |-> end]

permit_frame(range, n) == ~range.some \/ (range.start <= n /\ n < range.end)

\* the paths of a set in ascending order
RECURSIVE SortedPaths(_)
SortedPaths(paths) ==
    IF paths = {} THEN <<>>
    ELSE LET first == CHOOSE p \in paths :
                          \A q \in paths \ {p} : PathLess(p, q)
         IN  <<first>> \o SortedPaths(paths \ {first})

\* Reel::get_metaframes followed by frames.sort_by(path): [ok, frames]
get_metaframes(files, range) ==
    IF \E p \in files : ~MetaFrame_try_from(p).ok
    THEN [ok |-> FALSE, frames |-> <<>>]
    ELSE LET permitted ==
                 {p \in files :
                     permit_frame(range,
                                  trunc(MetaFrame_try_from(p).frame.step_f32))}
             sorted == SortedPaths(permitted)
         IN  [ok |-> TRUE,
              frames |-> [i \in 1..Len(sorted) |->
                             MetaFrame_try_from(sorted[i]).frame]]

\* a validate that keys the frames by their file name
validate_by_filename(fs) == \A i, j \in 1..Len(fs) : i # j => fs[i].path # fs[j].path

\* Reel::validate: TRUE for Ok(()); the HashMap is keyed by frame.step
validate(fs) == \A i, j \in 1..Len(fs) : i # j => fs[i].step # fs[j].step

DuplicateSequence == "DuplicateSequence"  \* SEQUENCE_DUPE_ERR
MetaFrameError == "MetaFrame"             \* an error of MetaFrame::try_from

\* Reel::new(dir, reel_name, range): [res, frames, err]
Reel_new(files, range) ==
    LET Validated(got) ==
            IF ~got.ok
            THEN [res |-> "Err", frames |-> <<>>, err |-> MetaFrameError]
            ELSE IF ~validate(got.frames)
            THEN [res |-> "Err", frames |-> <<>>, err |-> DuplicateSequence]
            ELSE [res |-> "Ok", frames |-> got.frames, err |-> ""]
    IN  Validated(get_metaframes(files, range))

\* the take under way failed before the write step of process_response
FailedBeforeWrite ==
    \/ take_err \in {"hydrate", "init", "transport"}
    \/ take_err = "process" /\ take_stage = "match"

\* the take under way failed at the comparison that follows the write step
FailedAtComparison == take_err = "process" /\ take_stage = "compare"

\* C26: the register left by a failed frame depends only on where the take
\* failed: before the write step of process_response (hydration, transport,
\* an error of match_payload_response) it is the register before the take;
\* at the comparison after the write step it is that register with the values
\* captured from the frame's payload written over it, ignored keys included,
\* and this is the register written to cut_out.
C26_RegisterOfAFailedFrame ==
    rc_pc \in {"abort", "done"} /\ take_err \notin {"", "panic"} =>
        /\ FailedBeforeWrite => reg = take_reg0
        /\ FailedAtComparison =>
              /\ reg = MergeOne(take_reg0, take_matches.matches)
              /\ (rc_pc = "done" /\ cut_out = "Set"
                    /\ record_result = Err("process", frame_idx))
                    => cut_file = <<to_string_hidden(reg)>>

\* C29: a retry attempt that fails leaves the frame (its expected response
\* and its hydrate_writes flag) and the register as they were before that
\* attempt, so every attempt of a take is matched against the same expected
\* response and the same write templates as the first one.
C29_FailedAttemptLeavesFrameAndRegister ==
    rc_pc = "sleep" =>
        /\ payload_frame.response = attempt_start.frame.response
        /\ payload_frame.cut.hydrate_writes
               = attempt_start.frame.cut.hydrate_writes
        /\ reg = attempt_start.reg

-----------------------------------------------------------------------------
(* SpecReel: Reel::new on bounded directories                              *)

ReelName == <<"r">>

FileName(step, name) == ReelName \o <<".">> \o step \o <<".">> \o name \o FrJson

\* sequence sections: with and without padding, with a decimal part, with
\* every type code, with an unknown type code and without a number
Steps ==
    { <<"1", "s">>, <<"2", "s">>, <<"1", "0", "s">>, <<"0", "1", "s">>,
      <<"0", "1", "e">>, <<"1", "s", "_", "5">>, <<"0", "2", "s", "e">>,
      <<"1", "x">>, <<"s">> }

FrameNames == { <<"a">>, <<"b">> }

\* what the glob  r.*.*.fr.json  can match: also a name with a period in it
ReelFiles ==
    {FileName(step, name) : step \in Steps, name \in FrameNames}
        \cup {FileName(<<"3", "s">>, <<"a", ".", "b">>)}

MaxReelFiles == 3

RECURSIVE SetsUpTo(_, _)
SetsUpTo(S, n) ==
    IF n = 0 THEN {{}}
    ELSE LET smaller == SetsUpTo(S, n - 1)
         IN  smaller \cup {T \cup {x} : T \in smaller, x \in S}

ReelRanges == {NoRange, SomeRange(1, 2)}

InitReel ==
    /\ rl_pc = "start"
    /\ dir_files \in SetsUpTo(ReelFiles, MaxReelFiles)
    /\ frame_range \in ReelRanges
    /\ reel = <<>>
    /\ reg = <<>>
    /\ IdleRead /\ IdleWrite /\ IdleRegister /\ IdleValidation /\ IdleHydrate
    /\ IdleProcess /\ IdleRecord /\ IdleCmdRecord /\ IdleSerde

\* let reel = Reel::new(&cmd.reel_path, &cmd.reel_name, frame_range)
ReelNew ==
    /\ rl_pc = "start"
    /\ reel' = Reel_new(dir_files, frame_range)
    /\ rl_pc' = "done"
    /\ UNCHANGED <<dir_files, frame_range>>
    /\ UNCHANGED <<reg, readVars, writeVars, regVars, valVars, hydVars,
                   procVars, recVars, cmdVars, serdeVars>>

NextReel == ReelNew

SpecReel == InitReel /\ [][NextReel]_vars

\* a < b for two step_f32
StepLess(a, b) == a.num * b.den < b.num * a.den

\* C17: after Reel::new the frames are in ascending order of their file
\* names, and of any two frames the one with the smaller sequence number
\* comes first.
C17_FilenameOrderIsSequenceOrder ==
    (rl_pc = "done" /\ reel.res = "Ok") =>
        /\ \A i, j \in 1..Len(reel.frames) :
              i < j => PathLess(reel.frames[i].path, reel.frames[j].path)
        /\ \A i, j \in 1..Len(reel.frames) :
              StepLess(reel.frames[i].step_f32, reel.frames[j].step_f32)
                  => i < j

\* the frames MetaFrame::try_from makes of the files the range permits
PermittedFrames ==
    {MetaFrame_try_from(p).frame :
        p \in {q \in dir_files :
                 /\ MetaFrame_try_from(q).ok
                 /\ permit_frame(frame_range,
                                 trunc(MetaFrame_try_from(q).frame.step_f32))}}

SameNumber(a, b) == ~StepLess(a, b) /\ ~StepLess(b, a)

-----------------------------------------------------------------------------
(* cmd_record up to the call of run_record: the register of the runner     *)

\* a cut file that was read, and one that cannot be read
CutFile(r) == [ok |-> TRUE, reg |-> r]
NoFile == [ok |-> FALSE, reg |-> EmptyRegister]

\* Register::single_merge(other): the entries of other over those of self
single_merge(r, other) == MergeOne(r, other)

\* the loop of init_components: [ok, reg]
RECURSIVE InitComponentsLoop(_, _)
InitComponentsLoop(comp_reg, components) ==
    IF components = <<>> THEN [ok |-> TRUE, reg |-> comp_reg]
    ELSE IF ~Head(components).ok THEN [ok |-> FALSE, reg |-> comp_reg]
    ELSE InitComponentsLoop(single_merge(comp_reg, Head(components).reg),
                            Tail(components))

\* init_components(components): [ok, reg]
init_components(components) == InitComponentsLoop(EmptyRegister, components)

\* a read_into that keeps the entries the register already has
read_into_keeps_base(base_register, cuts) ==
    IF \E n \in 1..Len(cuts) : ~cuts[n].ok
    THEN [ok |-> FALSE, reg |-> base_register]
    ELSE [ok |-> TRUE,
          reg |-> MergeOne(destructive_merge(EmptyRegister,
                               [n \in 1..Len(cuts) |-> cuts[n].reg]),
                           base_register)]

\* read_into(base_register, merge_cuts): [ok, reg]
read_into(base_register, cuts) ==
    IF \E n \in 1..Len(cuts) : ~cuts[n].ok
    THEN [ok |-> FALSE, reg |-> base_register]
    ELSE [ok |-> TRUE,
          reg |-> destructive_merge(base_register,
                                    [n \in 1..Len(cuts) |-> cuts[n].reg])]

\* the register cmd_record hands to run_record: [ok, reg]
RunnerRegister(base, reel_res, components, cuts) ==
    LET bad == [ok |-> FALSE, reg |-> EmptyRegister]
        Components(comp) ==
            IF ~comp.ok THEN bad
            ELSE read_into(single_merge(comp.reg, base.reg), cuts)
    IN  IF ~base.ok \/ reel_res # "Ok" THEN bad
        ELSE Components(init_components(components))

-----------------------------------------------------------------------------
(* SpecCmdRecord: cmd_record on bounded cut files                          *)

CutKeys == {NameA, NameO}

\* the cut files of one source: every set of keys, each value naming the
\* source it comes from
CutsOf(source) ==
    {CutFile([k \in keys_in |-> Str(source)]) : keys_in \in SUBSET CutKeys}
        \cup {NoFile}

MaxComponents == 2
MaxMergeCuts == 2

DigitChar(n) == ByteOrder[n + 2]

\* up to n cut files, the one at position i with the values of sources[i]
RECURSIVE CutLists(_, _)
CutLists(sources, n) ==
    IF n = 0 THEN {<<>>}
    ELSE LET shorter == CutLists(sources, n - 1)
         IN  shorter \cup
             {Append(q, c) : q \in {t \in shorter : Len(t) = n - 1},
                             c \in CutsOf(<<sources, DigitChar(n)>>)}

InitCmdRecord ==
    /\ cr_pc = "start"
    /\ cut_register \in CutsOf(<<"b">>)
    /\ component \in CutLists("c", MaxComponents)
    /\ merge_cuts \in CutLists("m", MaxMergeCuts)
    /\ reel \in { [res |-> "Ok", frames |-> <<>>, err |-> ""],
                  [res |-> "Err", frames |-> <<>>, err |-> MetaFrameError] }
    /\ rl_pc = "idle" /\ dir_files = {} /\ frame_range = <<>>
    /\ reg = <<>>
    /\ IdleRead /\ IdleWrite /\ IdleRegister /\ IdleValidation /\ IdleHydrate
    /\ IdleProcess /\ IdleRecord /\ IdleSerde

\* cmd_record(cmd, base_params) up to run_record(RecordRunner { .. })
CmdRecord ==
    /\ cr_pc = "start"
    /\ LET Built(runner) ==
               /\ cr_pc' = IF runner.ok THEN "run_record" ELSE "err"
               /\ reg' = IF runner.ok THEN runner.reg ELSE reg
       IN  Built(RunnerRegister(cut_register, reel.res, component, merge_cuts))
    /\ UNCHANGED <<cut_register, component, merge_cuts>>
    /\ UNCHANGED <<readVars, writeVars, regVars, valVars, hydVars, procVars,
                   recVars, reelVars, serdeVars>>

NextCmdRecord == CmdRecord

SpecCmdRecord == InitCmdRecord /\ [][NextCmdRecord]_vars

\* the positions of the cuts that hold the key k
Holding(cuts, k) == {n \in 1..Len(cuts) : k \in DOMAIN cuts[n].reg}

Last(positions) == CHOOSE n \in positions : \A m \in positions : m <= n

\* C19: the register run_record starts from holds the keys of all the cuts;
\* a key of a merge cut has the value of the last merge cut that holds it,
\* any other key of the base cut has the base cut's value, and any other
\* key the value of a component cut.
C19_MergeCutsThenBaseThenComponents ==
    cr_pc = "run_record" =>
        /\ DOMAIN reg = DOMAIN cut_register.reg
                \cup UNION {DOMAIN component[n].reg : n \in 1..Len(component)}
                \cup UNION {DOMAIN merge_cuts[n].reg : n \in 1..Len(merge_cuts)}
        /\ \A k \in DOMAIN reg :
              IF Holding(merge_cuts, k) # {}
              THEN reg[k] = merge_cuts[Last(Holding(merge_cuts, k))].reg[k]
              ELSE IF k \in DOMAIN cut_register.reg
              THEN reg[k] = cut_register.reg[k]
              ELSE \E n \in Holding(component, k) : reg[k] = component[n].reg[k]

\* C19 witness: the key A is in a component cut, in the base cut and in two
\* merge cuts, the key O in a component cut and in the base cut
C19_EveryLayerOverridden ==
    /\ cr_pc = "run_record"
    /\ Holding(component, NameA) # {} /\ Holding(component, NameO) # {}
    /\ DOMAIN cut_register.reg = {NameA, NameO}
    /\ Holding(merge_cuts, NameA) = {1, 2}
    /\ Holding(merge_cuts, NameO) = {}
    /\ reg[NameA] = merge_cuts[2].reg[NameA]
    /\ reg[NameO] = cut_register.reg[NameO]

-----------------------------------------------------------------------------
(* serde: serde_json::from_str into Frame, Response, Register and          *)
(* VirtualReel, and serde_json::to_value of what it returned               *)

\* serde_json::Value: t is the variant; s the characters of a string, a
\* number or a boolean; items the elements of an array; map the entries of
\* an object
JNull == [t |-> "null", s |-> <<>>, items |-> <<>>, map |-> <<>>]
JStr(s) == [t |-> "string", s |-> s, items |-> <<>>, map |-> <<>>]
JNum(s) == [t |-> "number", s |-> s, items |-> <<>>, map |-> <<>>]
JBool(b) ==
    [t |-> "bool", s |-> IF b THEN <<"t">> ELSE <<"f">>, items |-> <<>>,
     map |-> <<>>]
JArr(items) == [t |-> "array", s |-> <<>>, items |-> items, map |-> <<>>]
JObj(map) == [t |-> "object", s |-> <<>>, items |-> <<>>, map |-> map]

SerdeErr == [ok |-> FALSE, v |-> <<>>]
SerdeOk(v) == [ok |-> TRUE, v |-> v]

\* the entries of an object other than the named ones: what a
\* #[serde(flatten)] field collects
FlattenRest(m, named) == [k \in DOMAIN m \ named |-> m[k]]

\* an Option<Value> field with #[serde(default)]: a missing key and null
\* both give None
OptionValue(m, k) ==
    IF k \in DOMAIN m /\ m[k].t # "null"
    THEN [some |-> TRUE, v |-> m[k]]
    ELSE [some |-> FALSE, v |-> JNull]

IsStringArray(j) ==
    j.t = "array" /\ \A n \in 1..Len(j.items) : j.items[n].t = "string"

IsStringMap(j) ==
    j.t = "object" /\ \A k \in DOMAIN j.map : j.map[k].t = "string"

\* u32
IsU32(j) == j.t = "number" /\ j.s # <<>> /\ \A n \in 1..Len(j.s) : j.s[n] \in Digit

\* Deserialize for InstructionSet, #[serde(default)]: [ok, v]
InstructionSet_de(j) ==
    IF j.t # "object" THEN SerdeErr
    ELSE IF "from" \in DOMAIN j.map /\ ~IsStringArray(j.map["from"]) THEN SerdeErr
    ELSE IF "to" \in DOMAIN j.map /\ ~IsStringMap(j.map["to"]) THEN SerdeErr
    ELSE IF "hydrate_writes" \in DOMAIN j.map /\ j.map["hydrate_writes"].t # "bool"
    THEN SerdeErr
    ELSE SerdeOk(
        [reads |-> IF "from" \in DOMAIN j.map
                   THEN {j.map["from"].items[n].s :
                            n \in 1..Len(j.map["from"].items)}
                   ELSE {},
         writes |-> IF "to" \in DOMAIN j.map
                    THEN [k \in DOMAIN j.map["to"].map |-> j.map["to"].map[k].s]
                    ELSE <<>>,
         hydrate_writes |-> IF "hydrate_writes" \in DOMAIN j.map
                            THEN j.map["hydrate_writes"] = JBool(TRUE)
                            ELSE FALSE])

\* InstructionSet::is_empty
InstructionSet_is_empty(set) == set.reads = {} /\ set.writes = <<>>

\* InstructionSet::validate: TRUE for Ok(()); the keys of `to` are the
\* variable names as strings, the entries of `from` their characters
InstructionSet_validate(set, name_of) ==
    \A r \in set.reads : name_of[r] \notin DOMAIN set.writes

\* the entries in descending order
RECURSIVE ordered_set_descending(_)
ordered_set_descending(set) ==
    IF set = {} THEN <<>>
    ELSE LET last == CHOOSE p \in set : \A q \in set \ {p} : PathLess(q, p)
         IN  <<last>> \o ordered_set_descending(set \ {last})

\* utils::ordered_set: the entries in ascending order
ordered_set(set) == SortedPaths(set)

\* Serialize for InstructionSet
InstructionSet_ser(set) ==
    LET sorted == ordered_set(set.reads)
        from == IF set.reads = {} THEN <<>>
                ELSE "from" :> JArr([n \in 1..Len(sorted) |-> JStr(sorted[n])])
        to == IF set.writes = <<>> THEN <<>>
              ELSE "to" :> JObj([k \in DOMAIN set.writes |-> JStr(set.writes[k])])
    IN  JObj(from @@ to)

\* Deserialize for frame::Request: [ok, v]
Request_de(j) ==
    IF j.t # "object" THEN SerdeErr
    ELSE IF "body" \notin DOMAIN j.map \/ "uri" \notin DOMAIN j.map THEN SerdeErr
    ELSE SerdeOk(
        [body |-> j.map["body"],
         header |-> OptionValue(j.map, "header"),
         entrypoint |-> OptionValue(j.map, "entrypoint"),
         etc |-> JObj(FlattenRest(j.map, {"body", "header", "entrypoint", "uri"})),
         uri |-> j.map["uri"]])

\* Serialize for frame::Request
Request_ser(r) ==
    JObj( ("body" :> r.body)
          @@ (IF r.header.some THEN "header" :> r.header.v ELSE <<>>)
          @@ (IF r.entrypoint.some THEN "entrypoint" :> r.entrypoint.v ELSE <<>>)
          @@ r.etc.map
          @@ ("uri" :> r.uri) )

\* Deserialize for frame::Response: [ok, v]
FrameResponse_de(j) ==
    IF j.t # "object" THEN SerdeErr
    ELSE IF "status" \notin DOMAIN j.map THEN SerdeErr
    ELSE IF ~IsU32(j.map["status"]) THEN SerdeErr
    ELSE SerdeOk(
        [body |-> OptionValue(j.map, "body"),
         etc |-> JObj(FlattenRest(j.map, {"body", "status"})),
         status |-> j.map["status"]])

\* Serialize for frame::Response
FrameResponse_ser(r) ==
    JObj( (IF r.body.some THEN "body" :> r.body.v ELSE <<>>)
          @@ r.etc.map
          @@ ("status" :> r.status) )

\* Deserialize for Validator, #[serde(default)]
IsValidator(j) ==
    /\ j.t = "object"
    /\ "partial" \in DOMAIN j.map => j.map["partial"].t = "bool"
    /\ "unordered" \in DOMAIN j.map => j.map["unordered"].t = "bool"

Validator_de(j) ==
    [partial |-> "partial" \in DOMAIN j.map /\ j.map["partial"] = JBool(TRUE),
     unordered |-> "unordered" \in DOMAIN j.map
                   /\ j.map["unordered"] = JBool(TRUE)]

\* Deserialize for response::Response: [ok, v]
Response_de(j) ==
    IF j.t # "object" THEN SerdeErr
    ELSE IF "status" \notin DOMAIN j.map THEN SerdeErr
    ELSE IF ~IsU32(j.map["status"]) THEN SerdeErr
    ELSE IF /\ "validation" \in DOMAIN j.map
            /\ j.map["validation"].t # "null"
            /\ \/ j.map["validation"].t # "object"
               \/ \E k \in DOMAIN j.map["validation"].map :
                     ~IsValidator(j.map["validation"].map[k])
    THEN SerdeErr
    ELSE SerdeOk(
        [body |-> OptionValue(j.map, "body"),
         etc |-> [some |-> TRUE,
                  v |-> JObj(FlattenRest(j.map, {"body", "validation", "status"}))],
         validation |->
            IF "validation" \in DOMAIN j.map /\ j.map["validation"].t # "null"
            THEN [some |-> TRUE,
                  v |-> [k \in DOMAIN j.map["validation"].map |->
                            Validator_de(j.map["validation"].map[k])]]
            ELSE [some |-> FALSE, v |-> <<>>],
         status |-> j.map["status"]])

\* Serialize for response::Response: validation is #[serde(skip_serializing)]
Response_ser(r) ==
    JObj( (IF r.body.some THEN "body" :> r.body.v ELSE <<>>)
          @@ (IF r.etc.some THEN r.etc.v.map ELSE <<>>)
          @@ ("status" :> r.status) )

\* Deserialize for Protocol
IsProtocol(j) == j \in {JStr(<<"g", "R", "P", "C">>), JStr(<<"H", "T", "T", "P">>)}

\* the name a `from` entry spells, as a key of `to`
KeyOf == (NameH :> "_h") @@ (NameT :> "t")

\* Frame::new: serde_json::from_str, then cut.validate(): [ok, v]
Frame_new(j) ==
    IF j.t # "object" THEN SerdeErr
    ELSE IF {"protocol", "request", "response"} \ DOMAIN j.map # {} THEN SerdeErr
    ELSE IF ~IsProtocol(j.map["protocol"]) THEN SerdeErr
    ELSE LET cut == IF "cut" \in DOMAIN j.map
                    THEN InstructionSet_de(j.map["cut"])
                    ELSE InstructionSet_de(JObj(<<>>))
             request == Request_de(j.map["request"])
             response == FrameResponse_de(j.map["response"])
         IN  IF ~cut.ok \/ ~request.ok \/ ~response.ok THEN SerdeErr
             ELSE IF ~InstructionSet_validate(cut.v, KeyOf) THEN SerdeErr
             ELSE SerdeOk([protocol |-> j.map["protocol"], cut |-> cut.v,
                           request |-> request.v, response |-> response.v])

\* Serialize for Frame
Frame_ser(f) ==
    JObj( ("protocol" :> f.protocol)
          @@ (IF InstructionSet_is_empty(f.cut) THEN <<>>
              ELSE "cut" :> InstructionSet_ser(f.cut))
          @@ ("request" :> Request_ser(f.request))
          @@ ("response" :> FrameResponse_ser(f.response)) )

\* Register::from: serde_json::from_str, vars flattened: [ok, v]
Register_de(j) ==
    IF j.t # "object" THEN SerdeErr ELSE SerdeOk([vars |-> j.map])

\* Serialize for Register: the entries through utils::ordered_val_map
Register_ser(r) == JObj(r.vars)

\* Deserialize for VirtualFrames, untagged: RenamedList before List
VirtualFrames_de(j) ==
    IF IsStringMap(j) THEN SerdeOk([variant |-> "RenamedList", v |-> j])
    ELSE IF IsStringArray(j) THEN SerdeOk([variant |-> "List", v |-> j])
    ELSE SerdeErr

\* Deserialize for VirtualCut, untagged: MergeCuts, Cut, Register
VirtualCut_de(j) ==
    IF IsStringArray(j) THEN SerdeOk([variant |-> "MergeCuts", v |-> j])
    ELSE IF j.t = "string" THEN SerdeOk([variant |-> "Cut", v |-> j])
    ELSE IF Register_de(j).ok THEN SerdeOk([variant |-> "Register", v |-> j])
    ELSE SerdeErr

\* Deserialize for VirtualReel: [ok, v]
VirtualReel_de(j) ==
    IF j.t # "object" THEN SerdeErr
    ELSE IF {"name", "frames", "cut"} \ DOMAIN j.map # {} THEN SerdeErr
    ELSE IF j.map["name"].t # "string" THEN SerdeErr
    ELSE IF "path" \in DOMAIN j.map /\ j.map["path"].t \notin {"null", "string"}
    THEN SerdeErr
    ELSE LET frs == VirtualFrames_de(j.map["frames"])
             cut == VirtualCut_de(j.map["cut"])
         IN  IF ~frs.ok \/ ~cut.ok THEN SerdeErr
             ELSE SerdeOk([name |-> j.map["name"],
                           path |-> OptionValue(j.map, "path"),
                           frames |-> frs.v, cut |-> cut.v])

\* Serialize for VirtualReel
VirtualReel_ser(r) ==
    JObj( ("name" :> r.name)
          @@ (IF r.path.some THEN "path" :> r.path.v ELSE <<>>)
          @@ ("frames" :> r.frames.v)
          @@ ("cut" :> r.cut.v) )

\* serde_json::from_str::<T>(doc), Frame through Frame::new
from_str(kind, doc) ==
    CASE kind = "Frame" -> Frame_new(doc)
      [] kind = "Response" -> Response_de(doc)
      [] kind = "Register" -> Register_de(doc)
      [] kind = "VirtualReel" -> VirtualReel_de(doc)

\* serde_json::to_value(&T)
to_value(kind, v) ==
    CASE kind = "Frame" -> Frame_ser(v)
      [] kind = "Response" -> Response_ser(v)
      [] kind = "Register" -> Register_ser(v)
      [] kind = "VirtualReel" -> VirtualReel_ser(v)

-----------------------------------------------------------------------------
(* SpecSerde: a document is read into its type and written back            *)

\* no entry under a key: not a JSON value
JAbsent == [t |-> "absent", s |-> <<>>, items |-> <<>>, map |-> <<>>]

Selector == JStr(<<".">>)
JText == JStr(<<"x">>)

\* an object with the entry key -> val when present holds, none otherwise
Opt(present, key, val) == IF present THEN key :> val ELSE <<>>

CutJsons ==
    { JObj(<<>>),
      JObj("from" :> JArr(<<>>)),
      JObj("from" :> JArr(<<JStr(NameT)>>)),
      JObj("from" :> JArr(<<JStr(NameH), JStr(NameT)>>)),
      JObj("from" :> JArr(<<JStr(NameT), JStr(NameH)>>)),
      JObj("from" :> JArr(<<JStr(NameT), JStr(NameT)>>)),
      JObj("to" :> JObj(<<>>)),
      JObj("to" :> JObj("t" :> Selector)),
      JObj(("from" :> JArr(<<JStr(NameH)>>)) @@ ("to" :> JObj("t" :> Selector))),
      JObj(("from" :> JArr(<<JStr(NameT)>>)) @@ ("to" :> JObj("t" :> Selector))),
      JObj(("from" :> JArr(<<JStr(NameT)>>)) @@ ("hydrate_writes" :> JBool(TRUE))),
      JObj("from" :> JText) }

RequestJsons ==
    { JObj(("body" :> JObj(<<>>)) @@ ("uri" :> JText)),
      JObj(("body" :> JNull) @@ ("uri" :> JText)),
      JObj("uri" :> JText),
      JObj(("body" :> JObj(<<>>)) @@ ("uri" :> JText) @@ ("header" :> JNull)),
      JObj(("body" :> JObj(<<>>)) @@ ("uri" :> JText)
           @@ ("header" :> JObj("k" :> JText)) @@ ("entrypoint" :> JText)),
      JObj(("body" :> JObj(<<>>)) @@ ("uri" :> JText) @@ ("id" :> JText)) }

ValidationJsons ==
    { JObj("'response'.'body'" :> JObj("partial" :> JBool(TRUE))),
      JObj("'response'.'body'" :>
               JObj(("partial" :> JBool(FALSE)) @@ ("unordered" :> JBool(TRUE)))),
      JNull,
      JText }

ResponseJsons ==
    { JObj( Opt(b # "absent", "body", IF b = "null" THEN JNull ELSE JText)
            @@ Opt(e, "user_level", JText)
            @@ Opt(v # JAbsent, "validation", v)
            @@ Opt(st # JAbsent, "status", st) ) :
        b \in {"absent", "null", "text"}, e \in BOOLEAN,
        v \in {JAbsent} \cup ValidationJsons,
        st \in {JAbsent, JNum(<<"0">>), JNum(<<"2", "0", "0">>), JText} }

Protocols == { JStr(<<"H", "T", "T", "P">>), JStr(<<"g", "R", "P", "C">>), JText }

FrameJsons ==
    { JObj( ("protocol" :> p) @@ Opt(c # JAbsent, "cut", c)
            @@ ("request" :> rq) @@ ("response" :> rs) ) :
        p \in Protocols, c \in {JAbsent} \cup CutJsons, rq \in RequestJsons,
        rs \in { r \in ResponseJsons : "user_level" \notin DOMAIN r.map } }

RegisterJsons ==
    { JObj(<<>>), JObj("KEY" :> JText),
      JObj(("KEY" :> JObj("k" :> JNull)) @@ ("_h" :> JArr(<<JText, JNull>>))),
      JObj("1A" :> JNum(<<"1">>)),
      JArr(<<JText>>) }

VirtualReelJsons ==
    { JObj( ("name" :> JText) @@ Opt(p # JAbsent, "path", p)
            @@ ("frames" :> f) @@ ("cut" :> c) @@ Opt(x, "comment", JText) ) :
        p \in {JAbsent, JNull, JText},
        f \in { JArr(<<JText, JText>>), JArr(<<>>), JObj("1" :> JText), JNull },
        c \in { JArr(<<JText>>), JText, JObj("KEY" :> JText), JNum(<<"1">>) },
        x \in BOOLEAN }

SerdeDocs(kind) ==
    CASE kind = "Frame" -> FrameJsons
      [] kind = "Response" -> ResponseJsons
      [] kind = "Register" -> RegisterJsons
      [] kind = "VirtualReel" -> VirtualReelJsons

InitSerde ==
    /\ sd_pc = "doc"
    /\ sd_kind \in {"Frame", "Response", "Register", "VirtualReel"}
    /\ sd_doc \in SerdeDocs(sd_kind)
    /\ sd_struct = <<>>
    /\ sd_out = <<>>
    /\ reg = <<>>
    /\ IdleRead /\ IdleWrite /\ IdleRegister /\ IdleValidation /\ IdleHydrate
    /\ IdleProcess /\ IdleRecord /\ IdleReel /\ IdleCmdRecord

\* let v: T = serde_json::from_str(doc)
Deserialize ==
    /\ sd_pc = "doc"
    /\ sd_struct' = from_str(sd_kind, sd_doc)
    /\ sd_pc' = IF sd_struct'.ok THEN "struct" ELSE "invalid"
    /\ UNCHANGED <<sd_kind, sd_doc, sd_out, reg>>
    /\ UNCHANGED <<readVars, writeVars, regVars, valVars, hydVars, procVars,
                   recVars, reelVars, cmdVars>>

\* serde_json::to_value(&v)
Serialize ==
    /\ sd_pc = "struct"
    /\ sd_out' = to_value(sd_kind, sd_struct.v)
    /\ sd_pc' = "serialized"
    /\ UNCHANGED <<sd_kind, sd_doc, sd_struct, reg>>
    /\ UNCHANGED <<readVars, writeVars, regVars, valVars, hydVars, procVars,
                   recVars, reelVars, cmdVars>>

NextSerde == Deserialize \/ Serialize

SpecSerde == InitSerde /\ [][NextSerde]_vars

NotNull(m, k) == k \in DOMAIN m => m[k].t # "null"

\* the key is absent, or its value is not empty
NotEmpty(m, k) == k \in DOMAIN m => (m[k].items # <<>> \/ m[k].map # <<>>)

\* the strings of an array are in strictly ascending order
Ascending(items) ==
    \A n \in 1..(Len(items) - 1) : PathLess(items[n].s, items[n + 1].s)

CanonicalCut(c) ==
    /\ DOMAIN c.map \subseteq {"from", "to"}
    /\ DOMAIN c.map # {}
    /\ NotEmpty(c.map, "from") /\ NotEmpty(c.map, "to")
    /\ "from" \in DOMAIN c.map => Ascending(c.map["from"].items)

\* a document written the way the serializers write it: nothing optional is
\* spelled as null or as an empty `cut`, `from` or `to`; `from` ascends
\* without repetition; no hydrate_writes in `cut`, no validation in a
\* Response, and in a VirtualReel no key other than its four
Canonical(kind, doc) ==
    CASE kind = "Frame" ->
            /\ "cut" \in DOMAIN doc.map => CanonicalCut(doc.map["cut"])
            /\ NotNull(doc.map["request"].map, "header")
            /\ NotNull(doc.map["request"].map, "entrypoint")
            /\ NotNull(doc.map["response"].map, "body")
      [] kind = "Response" ->
            /\ NotNull(doc.map, "body")
            /\ "validation" \notin DOMAIN doc.map
      [] kind = "Register" -> TRUE
      [] kind = "VirtualReel" ->
            /\ NotNull(doc.map, "path")
            /\ DOMAIN doc.map \subseteq {"name", "path", "frames", "cut"}

=============================================================================
